---- MODULE Spec2Model ----
(***************************************************************************)
(* A model of the evaluation core of evcxr: EvalContext (the committed     *)
(* ContextState, the retry loop of run_statements, the line protocol read  *)
(* by run_and_capture_output) and the error filtering of                   *)
(* eval_with_callbacks.  The compiler, the analyzer and the worker         *)
(* subprocess are external: each of their answers is a nondeterministic    *)
(* choice.                                                                 *)
(***************************************************************************)
EXTENDS Integers, Sequences, FiniteSets, TLC

\* ------------------------------------------------------------------ bounds

\* The largest build_num an execution may end with; clear() starts the
\* count again from 0.
MaxBuildNum == 2

\* The most non-terminal lines the worker emits during one execution.
MaxLines == 2

\* The most bytes of a raw input handed to from_original_user_code.
MaxTextLen == 5

\* The most lines the worker writes before it stops or ends, when the read
\* loop of run_and_capture_output is taken alone.
MaxRead == 3

\* The most lines the worker finds on its stdin, when its loop is taken alone.
MaxRequests == 3

\* The most children of a diagnostic handed to opt_new.
MaxChildren == 2

\* The most lines that the spans of one diagnostic cover.
MaxOrigins == 2

\* The most segments of the code block of an item that is committed.
MaxSegments == 2

\* The most execute requests that wait in the server's execution channel.
MaxExecuteRequests == 2

\* The most input requests that the code of one execute request makes.
MaxInputs == 1

\* The most messages that arrive on the shell socket.
MaxShellMessages == 1

\* --------------------------------------------------------- program constants

\* let mut remaining_retries = 5;
RETRIES == 5

\* ------------------------------------------------------------- value domains

Names == {"a", "b"}

\* What the analyzer infers for the variables the inputs define: `a` is an
\* i32 when it is defined alone and an i64 when it is defined with `b`.
TypeOf(name, lets) ==
    IF name = "a" THEN (IF lets = {"a"} THEN "i32" ELSE "i64") ELSE "String"

\* Whether the inputs define the variable with `let mut`: `b` always, `a`
\* when it is defined with `b`.
IsMut(name, lets) == name = "b" \/ lets = Names

ItemNames == {"bar", "foo"}

EmptyMap == [n \in {} |-> 0]

Remove(map, name) == [n \in (DOMAIN map) \ {name} |-> map[n]]

RemoveAll(map, names) == [n \in (DOMAIN map) \ names |-> map[n]]

Range(seq) == {seq[i] : i \in 1..Len(seq)}

\* struct VariableState
VariableState(ty, m, ms, span) ==
    [type_name |-> ty, is_mut |-> m, move_state |-> ms, definition_span |-> span]

\* struct Config, reduced to the field the variable handling reads.
InitialConfig == [preserve_vars_on_panic |-> TRUE]

\* ContextState::add_dep when the dependency is valid: the crate is
\* registered under its name with the given configuration.
AddDep(deps, dep, dep_config) ==
    [n \in (DOMAIN deps) \cup {dep} |-> IF n = dep THEN dep_config ELSE deps[n]]

\* ContextState::new
ContextStateNew(config) ==
    [items_by_name |-> EmptyMap,
     external_deps |-> EmptyMap,
     variable_states |-> EmptyMap,
     stored_variable_states |-> EmptyMap,
     async_mode |-> FALSE,
     allow_question_mark |-> FALSE,
     build_num |-> 0,
     config |-> config]

\* ------------------------------------------------------------------- errors

\* enum CodeKind, as the origin of a diagnostic.
Origin(kind, name) == [kind |-> kind, name |-> name]

OriginalUserCode == Origin("OriginalUserCode", "")
OtherUserCode == Origin("OtherUserCode", "")
WithFallback == Origin("WithFallback", "")
OtherGeneratedCode == Origin("OtherGeneratedCode", "")
PackVariable(name) == Origin("PackVariable", name)

\* CodeKind::is_user_supplied
IsUserSupplied(origin) ==
    origin.kind \in {"OriginalUserCode", "OtherUserCode", "Command"}

\* struct CompilationError: the diagnostic code ("none" when the payload has
\* none), the origins, and whether the message is the let-expression one.
CompilationError(code, origins, let_msg) ==
    [code |-> code, code_origins |-> origins, let_message |-> let_msg]

\* CompilationError::is_from_user_code
IsFromUserCode(error) ==
    \E i \in 1..Len(error.code_origins) : IsUserSupplied(error.code_origins[i])

\* CompilationError::from_segment_span
FromSegmentSpan(kind) == CompilationError("none", <<kind>>, FALSE)

PackCodes == {"E0382", "E0425", "E0603", "E0562", "E0597", "none"}

\* The diagnostics the compiler can attribute to the unit built from `st` and
\* `uc`: pack segments exist for the variables of variable_states, a
\* WithFallback segment while the fallback has not been applied, and user
\* code can use .await and the question mark only where the input does.
Diagnostics(st, uc) ==
    {CompilationError(c, <<PackVariable(n)>>, FALSE) :
        c \in PackCodes, n \in DOMAIN st.variable_states}
    \cup {CompilationError("E0308", <<PackVariable(n), OriginalUserCode>>, FALSE) :
        n \in {m \in DOMAIN st.variable_states : uc.user}}
    \cup {CompilationError(c, <<OriginalUserCode>>, c = "E0658") :
        c \in {d \in {"E0594", "E0658"} : uc.user}}
    \cup {CompilationError(c, <<OriginalUserCode>>, FALSE) :
        c \in {d \in {"E0728", "E0277"} : uc.rich}}
    \cup {CompilationError("E0277", <<WithFallback>>, FALSE) :
        c \in {d \in {1} : uc.fallback}}
    \cup {CompilationError("E0433", <<OtherGeneratedCode>>, FALSE)}

\* Two diagnostics of one build: a second one on the same pack segment, or a
\* follow-on error in generated code.
ErrorPairs(st, uc) ==
    {<<CompilationError("E0382", <<PackVariable(n)>>, FALSE),
       CompilationError(c, <<PackVariable(n)>>, FALSE)>> :
        c \in {"E0562", "E0425"}, n \in DOMAIN st.variable_states}
    \cup {<<CompilationError("E0433", <<OtherGeneratedCode>>, FALSE),
            CompilationError("E0594", <<OriginalUserCode>>, FALSE)>> :
        c \in {d \in {1} : uc.user}}

\* The error lists one failed build can report.
ErrorLists(st, uc) ==
    {<<e>> : e \in Diagnostics(st, uc)} \cup ErrorPairs(st, uc)

\* The error lists of a build without the panic-catching wrapper.
NoCatchErrorLists ==
    {<<CompilationError("E0384", <<OriginalUserCode>>, FALSE)>>,
     <<CompilationError("E0433", <<OtherGeneratedCode>>, FALSE),
       CompilationError("E0384", <<OriginalUserCode>>, FALSE)>>}

\* ------------------------------------------------- attempt_to_fix_error

\* The accumulator of one pass of the fixers over an error list: the working
\* state, the user code, the labels of the fixes applied, and how the pass
\* ended ("ok", "bail" for an early Err return, "panic" for a failed lookup).
FixAcc(st, uc, fixed, out) == [st |-> st, uc |-> uc, fixed |-> fixed, out |-> out]

\* The arm that takes a private type for a moved value: the variable is
\* removed and the error counts as fixed.
FixPackVariablePrivateTypeFixed(acc, error, name) ==
    IF error.code \in {"E0382", "E0425", "E0603"}
    THEN [acc EXCEPT !.st.variable_states = Remove(@, name),
                     !.fixed = @ \cup {"Captured value"}]
    ELSE IF error.code = "E0562"
            \/ (error.code = "none" /\ Len(error.code_origins) = 1)
    THEN IF name \in DOMAIN acc.st.variable_states
         THEN [acc EXCEPT !.out = "bail"]
         ELSE [acc EXCEPT !.out = "panic"]
    ELSE acc

\* The arm that marks a moved variable fixed and leaves it in the state.
FixPackVariableKeeps(acc, error, name) ==
    IF error.code \in {"E0382", "E0425"}
    THEN [acc EXCEPT !.fixed = @ \cup {"Captured value"}]
    ELSE acc

\* The arm for CodeKind::PackVariable { variable_name }.
FixPackVariable(acc, error, name) ==
    IF error.code = "E0382"
    THEN [acc EXCEPT !.st.variable_states = Remove(@, name),
                     !.fixed = @ \cup {"Captured value"}]
    ELSE IF error.code = "E0425"
    THEN [acc EXCEPT !.st.variable_states = Remove(@, name),
                     !.fixed = @ \cup {"Variable moved"}]
    ELSE IF error.code = "E0603"
    THEN IF name \in DOMAIN acc.st.variable_states
         THEN [acc EXCEPT !.st.variable_states = Remove(@, name), !.out = "bail"]
         ELSE acc
    ELSE IF error.code = "E0562"
            \/ (error.code = "none" /\ Len(error.code_origins) = 1)
    THEN IF name \in DOMAIN acc.st.variable_states
         THEN [acc EXCEPT !.out = "bail"]
         ELSE [acc EXCEPT !.out = "panic"]
    ELSE acc

\* The arm that marks the fallback fixed and leaves the segment as it is.
FixWithFallbackMarksOnly(acc) ==
    [acc EXCEPT !.fixed = @ \cup {"Fallback"}]

\* CodeBlock::apply_fallback, called by the arm for CodeKind::WithFallback.
FixWithFallback(acc) ==
    [acc EXCEPT !.uc.fallback = FALSE, !.fixed = @ \cup {"Fallback"}]

\* The arm that marks the question mark fixed and leaves the flag alone.
FixUserCodeKeepsFlag(acc, error, dep_ok) ==
    IF error.code = "E0277" /\ ~acc.st.allow_question_mark
    THEN [acc EXCEPT !.fixed = @ \cup {"Allow question mark"}]
    ELSE acc

\* The arm that adds its tokio whether or not one is registered.
FixUserCodeAlwaysAddsTokio(acc, error, dep_ok) ==
    IF error.code = "E0728" /\ ~acc.st.async_mode
    THEN IF dep_ok
         THEN [acc EXCEPT !.st.async_mode = TRUE,
                          !.st.external_deps = AddDep(@, "tokio", "1.20.1"),
                          !.fixed = @ \cup {"Enabled async mode"}]
         ELSE [acc EXCEPT !.st.async_mode = TRUE, !.out = "bail"]
    ELSE IF error.code = "E0277" /\ ~acc.st.allow_question_mark
    THEN [acc EXCEPT !.st.allow_question_mark = TRUE,
                     !.fixed = @ \cup {"Allow question mark"}]
    ELSE IF error.code = "E0658" /\ error.let_message
    THEN [acc EXCEPT !.out = "bail"]
    ELSE acc

\* The arm that gives the semicolon hint for the message alone, whatever the
\* diagnostic code.
FixUserCodeHintOnMessageAlone(acc, error, dep_ok) ==
    IF error.let_message
    THEN [acc EXCEPT !.out = "bail"]
    ELSE acc

\* The arm without the tests of the two flags: E0728 and E0277 are marked
\* fixed whenever they are reported.
FixUserCodeMarksAgain(acc, error, dep_ok) ==
    IF error.code = "E0728"
    THEN [acc EXCEPT !.st.async_mode = TRUE,
                     !.fixed = @ \cup {"Enabled async mode"}]
    ELSE IF error.code = "E0277"
    THEN [acc EXCEPT !.st.allow_question_mark = TRUE,
                     !.fixed = @ \cup {"Allow question mark"}]
    ELSE IF error.code = "E0658" /\ error.let_message
    THEN [acc EXCEPT !.out = "bail"]
    ELSE acc

\* The arm for OriginalUserCode and OtherUserCode.  dep_ok is whether add_dep
\* and the rewrite of Cargo.toml succeed when tokio has to be added.
FixUserCode(acc, error, dep_ok) ==
    IF error.code = "E0728" /\ ~acc.st.async_mode
    THEN IF "tokio" \in DOMAIN acc.st.external_deps
         THEN [acc EXCEPT !.st.async_mode = TRUE,
                          !.fixed = @ \cup {"Enabled async mode"}]
         ELSE IF dep_ok
         THEN [acc EXCEPT !.st.async_mode = TRUE,
                          !.st.external_deps = AddDep(@, "tokio", "1.20.1"),
                          !.fixed = @ \cup {"Enabled async mode"}]
         ELSE [acc EXCEPT !.st.async_mode = TRUE, !.out = "bail"]
    ELSE IF error.code = "E0277" /\ ~acc.st.allow_question_mark
    THEN [acc EXCEPT !.st.allow_question_mark = TRUE,
                     !.fixed = @ \cup {"Allow question mark"}]
    ELSE IF error.code = "E0658" /\ error.let_message
    THEN [acc EXCEPT !.out = "bail"]
    ELSE acc

\* The first fixer called for the error returns an error of its own: the
\* type of a stored variable is private (E0603) or cannot be persisted
\* (E0562, or no code on a pack segment), or a let expression lacks its
\* semicolon (E0658).
HardFails(error, st) ==
    LET origin == error.code_origins[1]
    IN \/ /\ origin.kind = "PackVariable"
          /\ Len(error.code_origins) = 1
          /\ error.code \in {"E0603", "E0562", "none"}
          /\ origin.name \in DOMAIN st.variable_states
       \/ /\ origin.kind \in {"OriginalUserCode", "OtherUserCode"}
          /\ error.code = "E0658"
          /\ error.let_message

\* A failed build reports an .await in user code.
HasAwaitError(errs) ==
    \E k \in 1..Len(errs) :
        /\ errs[k].code = "E0728"
        /\ \E i \in 1..Len(errs[k].code_origins) :
               errs[k].code_origins[i].kind \in {"OriginalUserCode", "OtherUserCode"}

\* A failed build reports an error on a segment that has a fallback.
HasFallbackError(errs) ==
    \E k \in 1..Len(errs) :
        \E i \in 1..Len(errs[k].code_origins) :
            errs[k].code_origins[i].kind = "WithFallback"

\* A failed build reports a question mark the user code may not yet use.
HasQuestionMarkError(errs, st) ==
    /\ ~st.allow_question_mark
    /\ \E k \in 1..Len(errs) :
           /\ errs[k].code = "E0277"
           /\ \E i \in 1..Len(errs[k].code_origins) :
                  errs[k].code_origins[i].kind \in {"OriginalUserCode", "OtherUserCode"}

\* The body of the loop over error.code_origins.
FixOrigin(acc, error, origin, dep_ok) ==
    IF origin.kind = "PackVariable" THEN FixPackVariable(acc, error, origin.name)
    ELSE IF origin.kind = "WithFallback" THEN FixWithFallback(acc)
    ELSE IF origin.kind \in {"OriginalUserCode", "OtherUserCode"}
    THEN FixUserCode(acc, error, dep_ok)
    ELSE acc

RECURSIVE FixOrigins(_, _, _, _)
\* attempt_to_fix_error from origin i on; an early return ends the pass.
FixOrigins(acc, error, i, dep_ok) ==
    IF i > Len(error.code_origins) \/ acc.out # "ok"
    THEN acc
    ELSE FixOrigins(FixOrigin(acc, error, error.code_origins[i], dep_ok),
                    error, i + 1, dep_ok)

AttemptToFixError(acc, error, dep_ok) == FixOrigins(acc, error, 1, dep_ok)

RECURSIVE FixErrors(_, _, _, _)
\* for error in &errors { self.attempt_to_fix_error(error, ...)?; }
FixErrors(acc, errors, i, dep_ok) ==
    IF i > Len(errors) \/ acc.out # "ok"
    THEN acc
    ELSE FixErrors(AttemptToFixError(acc, errors[i], dep_ok), errors, i + 1, dep_ok)

\* The guard off by one: a pass of the fixers is still made at budget 0.
CanRetryAtZero(retries) == retries >= 0

\* if remaining_retries > 0
CanRetry(retries) == retries > 0

\* --------------------------------------------------------- ContextState

\* struct CodeBlock, reduced to what the controller reads: whether it holds
\* user segments, whether it holds a segment that still has a fallback, and
\* whether the user segments use .await and the question mark.
CodeBlock(user, fallback, rich) == [user |-> user, fallback |-> fallback, rich |-> rich]

\* CodeBlock::is_empty
IsEmpty(code) == ~code.user /\ ~code.fallback

\* A submission: the variables its code defines with let, the items it
\* defines, whether it has other statements (a final expression displayed
\* through a fallback, .await and the question mark among them), and what its
\* commands did to the working state before the code is evaluated.
Input(lets, items, stmts, cmd) ==
    [lets |-> lets, items |-> items, stmts |-> stmts, cmd |-> cmd]

Commands == {"none", ":preserve_vars_on_panic 0", ":dep tokio"}

\* The submissions explored.
Inputs ==
    {Input(l, {}, FALSE, "none") : l \in (SUBSET Names) \ {{}}}
    \cup {Input({}, {i}, FALSE, "none") : i \in ItemNames}
    \cup {Input({}, {}, s, c) : s \in BOOLEAN, c \in Commands}

\* user_code.is_empty() of the code the caller passes in.
IsEmptyInput(in) == in.lets = {} /\ in.items = {} /\ ~in.stmts

ApplyCommand(st, cmd) ==
    IF cmd = ":preserve_vars_on_panic 0"
    THEN [st EXCEPT !.config.preserve_vars_on_panic = FALSE]
    ELSE IF cmd = ":dep tokio"
    THEN [st EXCEPT !.external_deps = AddDep(@, "tokio", "1")]
    ELSE st

\* ContextState::state_change_can_fail_compilation
StateChangeCanFailCompilation(old, new) == old.external_deps # new.external_deps

\* ContextState::apply: every variable known so far is Available, the
\* variables the code defines are New and carry their definition span, and
\* the items move into the state as original user code.
Apply(st, in) ==
    [st EXCEPT
        !.variable_states =
            [n \in (DOMAIN @) \cup in.lets |->
                IF n \in in.lets
                THEN VariableState("", IsMut(n, in.lets), "New", TRUE)
                ELSE [@[n] EXCEPT !.move_state = "Available"]],
        !.items_by_name =
            [i \in (DOMAIN @) \cup in.items |->
                IF i \in in.items THEN "OriginalUserCode" ELSE @[i]]]

\* The code ContextState::apply returns: the input without its items.
CodeOut(in) == CodeBlock(in.lets # {} \/ in.stmts, in.stmts, in.stmts)

\* The assignment that also takes the mutability the analyzer reports for
\* the pattern that would define the variable in this input.
FixVariableTypesAndMutability(st, in) ==
    [st EXCEPT
        !.variable_states =
            [n \in DOMAIN @ |->
                [@[n] EXCEPT !.type_name = TypeOf(n, in.lets \cup {n}),
                             !.is_mut = IsMut(n, in.lets \cup {n})]]]

\* fix_variable_types, when the analyzer names a type for every variable: a
\* variable the input defines gets the inferred type, and a known variable
\* the type its unpacking declares, which is the one it has; the entry
\* exists, so that or_insert_with leaves is_mut and move_state alone.
FixVariableTypes(st, in) ==
    [st EXCEPT
        !.variable_states =
            [n \in DOMAIN @ |->
                IF @[n].move_state = "New"
                THEN [@[n] EXCEPT !.type_name = TypeOf(n, in.lets)]
                ELSE [@[n] EXCEPT !.type_name = @]]]

\* variable_states.retain(|_, v| v.move_state != VariableMoveState::New)
RetainNotNew(vars) ==
    [n \in {m \in DOMAIN vars : vars[m].move_state # "New"} |-> vars[n]]

\* The clone taken before the definition spans are cleared.
StoredSnapshotBeforeClearing(cleared, original) == original

\* The clone of variable_states that commit_state stores.
StoredSnapshot(cleared, original) == cleared

\* EvalContext::commit_state and ContextState::commit_old_user_code
CommitState(st) ==
    LET cleared == [n \in DOMAIN st.variable_states |->
                       [st.variable_states[n] EXCEPT !.definition_span = FALSE]]
    IN [st EXCEPT
           !.variable_states = cleared,
           !.stored_variable_states = StoredSnapshot(cleared, st.variable_states),
           !.items_by_name = [i \in DOMAIN @ |-> "OtherUserCode"]]

\* ContextState::customize_error: an error of a pack segment whose variable
\* still has its definition span is replaced by one on the defining segment.
CustomizeError(st, error) ==
    IF error.code = "E0597"
       /\ \E i \in 1..Len(error.code_origins) :
            /\ error.code_origins[i].kind = "PackVariable"
            /\ error.code_origins[i].name \in DOMAIN st.variable_states
            /\ st.variable_states[error.code_origins[i].name].definition_span
    THEN FromSegmentSpan(OriginalUserCode)
    ELSE error

\* ContextState::apply_custom_errors
ApplyCustomErrors(st, errs) == [i \in 1..Len(errs) |-> CustomizeError(st, errs[i])]

\* The retain without the guard that some error is from user code.
RetainUserErrorsAlways(errs) == SelectSeq(errs, IsFromUserCode)

\* if errors.iter().any(is_from_user_code) { errors.retain(is_from_user_code) }
RetainUserErrors(errs) ==
    IF \E i \in 1..Len(errs) : IsFromUserCode(errs[i])
    THEN SelectSeq(errs, IsFromUserCode)
    ELSE errs

\* -------------------------------------------- CodeBlock::from_original_user_code

\* The bytes a raw input is made of: a colon, a letter, a space, a slash and
\* the line feed.
SplitChars == {":", "d", " ", "/", "\n"}

\* The raw inputs explored.
Texts == UNION {[1..n -> SplitChars] : n \in 0..MaxTextLen}

\* The smallest index from i on at which the line has a space (or has none,
\* for sp = FALSE); one past the end when there is no such index.
Find(line, i, sp) ==
    LET found == {j \in i..Len(line) : (line[j] = " ") = sp}
    IN IF found = {} THEN Len(line) + 1
       ELSE CHOOSE j \in found : \A k \in found : j <= k

RECURSIVE LinesFrom(_, _, _)
\* str::lines from byte `start` on, looking at byte i: each line without its
\* line feed, with the 0-based offset of its first byte; a text that ends
\* with a line feed has no empty last line.
LinesFrom(text, start, i) ==
    IF i > Len(text)
    THEN IF start <= Len(text)
         THEN <<[start_byte |-> start - 1, line |-> SubSeq(text, start, Len(text))]>>
         ELSE <<>>
    ELSE IF text[i] = "\n"
    THEN <<[start_byte |-> start - 1, line |-> SubSeq(text, start, i - 1)]>>
             \o LinesFrom(text, i + 1, i + 1)
    ELSE LinesFrom(text, start, i + 1)

\* user_code.lines()
Lines(text) == LinesFrom(text, 1, 1)

\* The match of "^( +)?(:[^ ]*)" with the leading spaces left out: the
\* command has to begin the line.
CommandReNoIndent(line) ==
    IF Len(line) >= 1 /\ line[1] = ":"
    THEN LET q == Find(line, 1, TRUE)
         IN [matched |-> TRUE, command |-> SubSeq(line, 1, q - 1),
             args |-> IF q > Len(line) THEN <<"None">>
                      ELSE <<"Some", SubSeq(line, Find(line, q, FALSE), Len(line))>>]
    ELSE [matched |-> FALSE, command |-> <<>>, args |-> <<"None">>]

\* COMMAND_RE, "^ *(:[^ ]*)( +(.*))?$", on one line: spaces, then the
\* command from the colon up to the next space, then, after at least one
\* space, the arguments.
CommandRe(line) ==
    LET p == Find(line, 1, FALSE)
        q == Find(line, p, TRUE)
    IN IF p <= Len(line) /\ line[p] = ":"
       THEN [matched |-> TRUE, command |-> SubSeq(line, p, q - 1),
             args |-> IF q > Len(line) THEN <<"None">>
                      ELSE <<"Some", SubSeq(line, Find(line, q, FALSE), Len(line))>>]
       ELSE [matched |-> FALSE, command |-> <<>>, args |-> <<"None">>]

\* line.starts_with("//")
StartsWithSlashes(line) == Len(line) >= 2 /\ line[1] = "/" /\ line[2] = "/"

\* line.trim().is_empty()
TrimIsEmpty(line) == \A j \in 1..Len(line) : line[j] = " "

\* fn num_lines
NumLines(code) == Cardinality({j \in 1..Len(code) : code[j] = "\n"})

\* The segment whose lines are counted before the line feed is added.
SegmentNewCountsInput(kind, code) ==
    LET text == IF Len(code) > 0 /\ code[Len(code)] = "\n"
                THEN code ELSE code \o <<"\n">>
    IN [kind |-> kind, code |-> text, num_lines |-> NumLines(code)]

\* The segment that holds the code as it was handed in.
SegmentNewAsIs(kind, code) ==
    [kind |-> kind, code |-> code, num_lines |-> NumLines(code)]

\* Segment::new: the code gets a line feed unless it ends with one.
SegmentNew(kind, code) ==
    LET text == IF Len(code) > 0 /\ code[Len(code)] = "\n"
                THEN code ELSE code \o <<"\n">>
    IN [kind |-> kind, code |-> text, num_lines |-> NumLines(text)]

\* CodeKind::Command(CommandCall { command, args, start_byte, line_number })
CommandCall(captures, start_byte, line_number) ==
    [tag |-> "Command", command |-> captures.command, args |-> captures.args,
     start_byte |-> start_byte, line_number |-> line_number]

\* The rest of the input, from the first line of code on: user code that
\* starts at that byte and line.
UserCodeSegments(text, start_byte, start_line) ==
    <<SegmentNew([tag |-> "OriginalUserCode", start_byte |-> start_byte,
                  start_line |-> start_line],
                 SubSeq(text, start_byte + 1, Len(text)))>>

RECURSIVE ScanLines(_, _, _)
\* The loop over user_code.lines().enumerate(), from line k on.
ScanLines(text, lines, k) ==
    IF k > Len(lines) THEN <<>>
    ELSE LET line == lines[k].line
             captures == CommandRe(line)
         IN IF captures.matched
            THEN <<SegmentNew(CommandCall(captures, lines[k].start_byte, k), line)>>
                     \o ScanLines(text, lines, k + 1)
            ELSE IF StartsWithSlashes(line) \/ TrimIsEmpty(line)
            THEN ScanLines(text, lines, k + 1)
            ELSE UserCodeSegments(text, lines[k].start_byte, k)

\* CodeBlock::from_original_user_code: the segments of the code block.
FromOriginalUserCode(text) == ScanLines(text, Lines(text), 1)

RECURSIVE Concat(_)
\* The texts of the segments, one after the other.
Concat(segments) ==
    IF segments = <<>> THEN <<>>
    ELSE Head(segments).code \o Concat(Tail(segments))

\* -------------------------------------------------------------------- state

VARIABLES
    committed_state,    \* EvalContext::committed_state
    child_process,      \* EvalContext::child_process: whether the worker runs
    pc,                 \* "idle", "compile", "exec", "nocatch", "done" or "panicked"
    state,              \* the working ContextState of the evaluation
    user_code,          \* run_statements' user_code
    remaining_retries,  \* run_statements' remaining_retries
    errors,             \* the error list of the failed attempt, while the recompile runs
    got_panic,          \* run_and_capture_output's got_panic
    lost_variables,     \* run_and_capture_output's lost_variables
    nlines,             \* the lines received in this execution
    result,             \* what the last evaluation returned to its caller
    history             \* what happened in the current or last evaluation

vars == <<committed_state, child_process, pc, state, user_code, remaining_retries,
          errors, got_panic, lost_variables, nlines, result, history>>

\* The working values while no evaluation runs.
IdleState == ContextStateNew(InitialConfig)

NoResult == [kind |-> "None", errors |-> <<>>]

\* What is recorded about an evaluation: the committed state when it began,
\* the names the worker reported lost, whether the worker was found
\* terminated, the passes in which a fixer applied, whether the last step
\* called the fixers, the variables when the last execution began and
\* whether it panicked, the error list of the latest build if it failed with one, how
\* the recompile ended and with which list, the list run_statements
\* returned, the list before the user-code filter, and what the analyzer
\* reported for the variables of the input when it could not name a type.
NoHistory ==
    [pre |-> IdleState, lost |-> {}, terminated |-> FALSE,
     fix_passes |-> 0, fixers_called |-> FALSE,
     exec_vars |-> EmptyMap, panicked |-> FALSE,
     catch_errors |-> <<>>, nocatch |-> "none", nocatch_errors |-> <<>>,
     returned |-> <<>>, customized |-> <<>>, analysis |-> EmptyMap]

\* The state after EvalContext::with_subprocess_command: eval("42") has run
\* and committed once.
Init ==
    /\ committed_state = [ContextStateNew(InitialConfig) EXCEPT !.build_num = 1]
    /\ child_process = [running |-> TRUE]
    /\ pc = "idle"
    /\ state = IdleState
    /\ user_code = CodeBlock(FALSE, FALSE, FALSE)
    /\ remaining_retries = RETRIES
    /\ errors = <<>>
    /\ got_panic = FALSE
    /\ lost_variables = <<>>
    /\ nlines = 0
    /\ result = NoResult
    /\ history = NoHistory

\* The evaluation returns to its caller: its working values are dropped.
Return(kind, errs) ==
    /\ pc' = "done"
    /\ state' = IdleState
    /\ user_code' = CodeBlock(FALSE, FALSE, FALSE)
    /\ remaining_retries' = RETRIES
    /\ errors' = <<>>
    /\ got_panic' = FALSE
    /\ lost_variables' = <<>>
    /\ nlines' = 0
    /\ result' = [kind |-> kind, errors |-> errs]

\* The Err(Error::CompilationErrors(errors)) arm of eval_with_callbacks.
ReturnCompilationErrors(st, errs, hist) ==
    LET customized == ApplyCustomErrors(st, errs)
    IN /\ Return("CompilationErrors", RetainUserErrors(customized))
       /\ history' = [hist EXCEPT !.returned = errs, !.customized = customized]

\* ------------------------------------------------------ eval_with_callbacks

\* The caller has the result of the evaluation; the session is ready for the
\* next one.
TakeResult ==
    /\ pc = "done"
    /\ pc' = "idle"
    /\ result' = NoResult
    /\ history' = NoHistory
    /\ UNCHANGED <<committed_state, child_process, state, user_code,
                   remaining_retries, errors, got_panic, lost_variables, nlines>>

BeginHistory ==
    [NoHistory EXCEPT !.pre = committed_state]

\* The code is empty and the state change cannot fail compilation: commit.
EvalSkip(in) ==
    LET st == ApplyCommand(committed_state, in.cmd)
    IN /\ pc = "idle"
       /\ IsEmptyInput(in)
       /\ ~StateChangeCanFailCompilation(committed_state, st)
       /\ committed_state' = CommitState(st)
       /\ Return("Ok", <<>>)
       /\ history' = BeginHistory
       /\ UNCHANGED child_process

\* state.apply, write_cargo_toml or the analyzer's set_source returns an
\* error (code that does not parse, an I/O failure).
EvalEarlyError(in) ==
    LET st == ApplyCommand(committed_state, in.cmd)
    IN /\ pc = "idle"
       /\ ~(IsEmptyInput(in) /\ ~StateChangeCanFailCompilation(committed_state, st))
       /\ Return("Other", <<>>)
       /\ history' = BeginHistory
       /\ UNCHANGED <<committed_state, child_process>>

\* enum TypeName, as the analyzer reports it for a top-level variable.
TypeNames == {"Named", "Closure", "Unknown"}

\* What the analyzer can report for the variables an input defines when it
\* cannot name the type of each of them.
Analyses(in) ==
    {types \in [in.lets -> TypeNames] : \E n \in in.lets : types[n] # "Named"}

\* The match that bails for a type that cannot be determined and takes a
\* closure for a type with a name.
TypeNameErrorSkipsClosure(type_name) ==
    IF type_name = "Unknown" THEN "unknown" ELSE "none"

\* The match on type_name in fix_variable_types: the error it bails with,
\* "none" for TypeName::Named.
TypeNameError(type_name) ==
    IF type_name = "Closure" THEN "closure"
    ELSE IF type_name = "Unknown" THEN "unknown"
    ELSE "none"

\* The evaluation returns an error made by bail! that names a variable.
ReturnVariableError(name, type_error) ==
    /\ pc' = "done"
    /\ state' = IdleState
    /\ user_code' = CodeBlock(FALSE, FALSE, FALSE)
    /\ remaining_retries' = RETRIES
    /\ errors' = <<>>
    /\ got_panic' = FALSE
    /\ lost_variables' = <<>>
    /\ nlines' = 0
    /\ result' = [kind |-> "Other", errors |-> <<>>,
                  variable |-> name, type_error |-> type_error]

\* eval_with_callbacks when the analyzer reports a closure or an unknown
\* type for a variable the input defines: fix_variable_types bails at the
\* first such variable of the analyzer's list, before the first build.
EvalTypeError(in, types) ==
    LET st == ApplyCommand(committed_state, in.cmd)
        bad == {n \in in.lets : TypeNameError(types[n]) # "none"}
    IN /\ pc = "idle"
       /\ in.lets # {}
       /\ types \in Analyses(in)
       /\ history' = [BeginHistory EXCEPT !.analysis = types]
       /\ UNCHANGED <<committed_state, child_process>>
       /\ IF bad # {}
          THEN \E name \in bad : ReturnVariableError(name, TypeNameError(types[name]))
          ELSE /\ pc' = "compile"
               /\ state' = FixVariableTypes(Apply(st, in), in)
               /\ user_code' = CodeOut(in)
               /\ remaining_retries' = RETRIES
               /\ result' = NoResult
               /\ UNCHANGED <<errors, got_panic, lost_variables, nlines>>

\* eval_with_callbacks up to the first build of run_statements.
EvalStart(in) ==
    LET st == ApplyCommand(committed_state, in.cmd)
    IN /\ pc = "idle"
       /\ ~(IsEmptyInput(in) /\ ~StateChangeCanFailCompilation(committed_state, st))
       /\ pc' = "compile"
       /\ state' = FixVariableTypes(Apply(st, in), in)
       /\ user_code' = CodeOut(in)
       /\ remaining_retries' = RETRIES
       /\ result' = NoResult
       /\ history' = BeginHistory
       /\ UNCHANGED <<committed_state, child_process, errors, got_panic,
                      lost_variables, nlines>>

\* ------------------------------------------------------------ run_statements

\* ChildProcess::restart: the new worker runs unless it cannot be spawned.
Restart(restart_ok) == [running |-> restart_ok]

\* The clearing that forgets the stored variables.
ClearVariableStatesOnly(st) == [st EXCEPT !.variable_states = EmptyMap]

\* The clearing of EvalContext::clear, which keeps the config alone.
ClearedState(st) == ContextStateNew(st.config)

\* The two clear() calls of restart_child_process.
ClearVariables(st) ==
    [st EXCEPT !.variable_states = EmptyMap, !.stored_variable_states = EmptyMap]

\* The cleared state built from the initial configuration.
ClearedStateWithInitialConfig(st) == ContextStateNew(InitialConfig)

\* EvalContext::cleared_state: a new ContextState with the config kept.
cleared_state(st) == ContextStateNew(st.config)

\* EvalContext::clear, called between evaluations: the committed state is
\* replaced by the cleared one, then restart_child_process runs; its result
\* is what clear returns.
Clear(restart_ok) ==
    /\ pc = "idle"
    /\ committed_state' = ClearVariables(cleared_state(committed_state))
    /\ child_process' = Restart(restart_ok)
    /\ result' = [kind |-> IF restart_ok THEN "Cleared" ELSE "ClearFailed",
                  errors |-> <<>>]
    /\ UNCHANGED <<pc, state, user_code, remaining_retries, errors, got_panic,
                   lost_variables, nlines, history>>

\* A step of EvalContext::clear: the only one that begins and ends between
\* evaluations.
ClearStep == pc = "idle" /\ pc' = "idle"

\* EvalContext::restart_child_process, then the return of the error: the
\* committed variables are cleared before the new worker is spawned, and a
\* failure to spawn it replaces the SubprocessTerminated error.
SubprocessTerminated(restart_ok) ==
    /\ committed_state' = ClearVariables(committed_state)
    /\ child_process' = Restart(restart_ok)
    /\ Return(IF restart_ok THEN "SubprocessTerminated" ELSE "Other", <<>>)
    /\ history' = [history EXCEPT !.terminated = TRUE, !.fixers_called = FALSE,
                                  !.catch_errors = <<>>]

\* The build succeeds and LOAD_AND_RUN is sent to the worker.
CompileOk ==
    /\ pc = "compile"
    /\ child_process.running
    /\ state.build_num < MaxBuildNum
    /\ pc' = "exec"
    /\ state' = [state EXCEPT !.build_num = @ + 1]
    /\ got_panic' = FALSE
    /\ lost_variables' = <<>>
    /\ nlines' = 0
    /\ history' = [history EXCEPT !.exec_vars = state.variable_states,
                                  !.panicked = FALSE,
                                  !.fixers_called = FALSE,
                                  !.catch_errors = <<>>]
    /\ UNCHANGED <<committed_state, child_process, user_code, remaining_retries,
                   errors, result>>

\* The build succeeds and the worker is gone when LOAD_AND_RUN is sent.
SendFails(restart_ok) ==
    /\ pc = "compile"
    /\ SubprocessTerminated(restart_ok)

\* The build fails with an error that is no compilation error.
CompileOtherError ==
    /\ pc = "compile"
    /\ Return("Other", <<>>)
    /\ history' = [history EXCEPT !.fixers_called = FALSE, !.catch_errors = <<>>]
    /\ UNCHANGED <<committed_state, child_process>>

\* The variables a failed build reports as moved: those whose pack segment
\* has an error with code E0382 or E0425.
MovedNames(errs) ==
    LET moved == {k \in 1..Len(errs) : errs[k].code \in {"E0382", "E0425"}}
        origins == UNION {Range(errs[k].code_origins) : k \in moved}
    IN {o.name : o \in {x \in origins : x.kind = "PackVariable"}}

\* The outcomes add_dep and the rewrite of Cargo.toml can have in a pass of
\* the fixers over errs: they run only when the E0728 arm has to add tokio.
AddDepOutcomes(errs) ==
    IF /\ CanRetry(remaining_retries)
       /\ HasAwaitError(errs)
       /\ ~state.async_mode
       /\ "tokio" \notin DOMAIN state.external_deps
    THEN BOOLEAN
    ELSE {TRUE}

\* The pass of the fixers over the errors of a failed build, when
\* remaining_retries allows one.
FixPass(errs, dep_ok) ==
    IF CanRetry(remaining_retries)
    THEN FixErrors(FixAcc(state, user_code, {}, "ok"), errs, 1, dep_ok)
    ELSE FixAcc(state, user_code, {}, "ok")

\* The Err(Error::CompilationErrors(errors)) arm of run_statements.
CompileErrors(errs, dep_ok) ==
    LET called == CanRetry(remaining_retries)
        acc == FixPass(errs, dep_ok)
        hist == [history EXCEPT !.fixers_called = called, !.catch_errors = errs]
    IN /\ pc = "compile"
       /\ errs \in ErrorLists(state, user_code)
       /\ UNCHANGED <<committed_state, child_process>>
       /\ IF acc.out = "bail"
          THEN /\ Return("Other", <<>>)
               /\ history' = hist
          ELSE IF acc.out = "panic"
          THEN /\ pc' = "panicked"
               /\ history' = hist
               /\ UNCHANGED <<state, user_code, remaining_retries, errors,
                              got_panic, lost_variables, nlines, result>>
          ELSE IF acc.fixed # {}
          THEN /\ state' = acc.st
               /\ user_code' = acc.uc
               /\ remaining_retries' = remaining_retries - 1
               /\ history' = [hist EXCEPT !.fix_passes = @ + 1]
               /\ UNCHANGED <<pc, errors, got_panic, lost_variables, nlines, result>>
          ELSE IF ~IsEmpty(user_code)
          THEN /\ pc' = "nocatch"
               /\ errors' = errs
               /\ history' = [hist EXCEPT !.catch_errors = errs]
               /\ UNCHANGED <<state, user_code, remaining_retries, got_panic,
                              lost_variables, nlines, result>>
          ELSE ReturnCompilationErrors(state, errs,
                                       [hist EXCEPT !.catch_errors = errs,
                                                    !.nocatch = "skipped"])

\* The recompile's errors dropped: the first list is returned in any case.
AfterNoCatchOriginal(original, recompiled, failed) == original

\* The error list run_statements returns after the recompile without
\* catch_unwind: the `?` returns the recompile's errors when it fails.
AfterNoCatch(original, recompiled, failed) ==
    IF failed THEN recompiled ELSE original

\* The successful recompile taken for a build to run: LOAD_AND_RUN is sent.
NoCatchOkRunsTheCode ==
    /\ pc = "nocatch"
    /\ child_process.running
    /\ state.build_num < MaxBuildNum
    /\ pc' = "exec"
    /\ state' = [state EXCEPT !.build_num = @ + 1]
    /\ got_panic' = FALSE
    /\ lost_variables' = <<>>
    /\ nlines' = 0
    /\ history' = [history EXCEPT !.nocatch = "ok", !.fixers_called = FALSE,
                                  !.exec_vars = state.variable_states]
    /\ UNCHANGED <<committed_state, child_process, user_code, remaining_retries,
                   errors, result>>

\* The recompile in mode NoCatchExpectError succeeds.
NoCatchOk ==
    /\ pc = "nocatch"
    /\ ReturnCompilationErrors(state, AfterNoCatch(errors, <<>>, FALSE),
                               [history EXCEPT !.nocatch = "ok",
                                               !.fixers_called = FALSE])
    /\ UNCHANGED <<committed_state, child_process>>

\* The recompile fails with its own compilation errors.
NoCatchErrors(errs) ==
    /\ pc = "nocatch"
    /\ errs \in NoCatchErrorLists
    /\ ReturnCompilationErrors(state, AfterNoCatch(errors, errs, TRUE),
                               [history EXCEPT !.nocatch = "failed",
                                               !.nocatch_errors = errs,
                                               !.fixers_called = FALSE])
    /\ UNCHANGED <<committed_state, child_process>>

\* The recompile fails with an error that is no compilation error.
NoCatchOtherError ==
    /\ pc = "nocatch"
    /\ Return("Other", <<>>)
    /\ history' = [history EXCEPT !.nocatch = "other", !.fixers_called = FALSE]
    /\ UNCHANGED <<committed_state, child_process>>

\* ---------------------------------------------------- run_and_capture_output

\* A line other than EVCXR_EXECUTION_COMPLETE was read.
Received ==
    /\ pc = "exec"
    /\ nlines < MaxLines
    /\ nlines' = nlines + 1
    /\ UNCHANGED <<committed_state, child_process, pc, user_code,
                   remaining_retries, errors, result, history>>

\* The panic notification taken as the end of the execution: the new
\* variables are dropped and the evaluation commits at once.
RecvPanicEndsExecution ==
    /\ pc = "exec"
    /\ nlines < MaxLines
    /\ committed_state' =
           [state EXCEPT !.variable_states = RetainNotNew(@),
                         !.stored_variable_states = RetainNotNew(state.variable_states)]
    /\ pc' = "done"
    /\ result' = [kind |-> "Ok", errors |-> <<>>]
    /\ got_panic' = TRUE
    /\ history' = [history EXCEPT !.panicked = TRUE]
    /\ UNCHANGED <<child_process, state, user_code, remaining_retries, errors,
                   lost_variables, nlines>>

\* line == PANIC_NOTIFICATION
RecvPanic ==
    /\ Received
    /\ got_panic' = TRUE
    /\ UNCHANGED <<state, lost_variables>>

\* The early return taken for the loss of every variable.
RecvUserErrorDropsAll ==
    /\ Received
    /\ state' = [state EXCEPT !.variable_states = EmptyMap]
    /\ UNCHANGED <<got_panic, lost_variables>>

\* line == USER_ERROR_OCCURRED
RecvUserError ==
    /\ Received
    /\ state' = [state EXCEPT !.variable_states = RetainNotNew(@)]
    /\ UNCHANGED <<got_panic, lost_variables>>

\* line.strip_prefix(VARIABLE_CHANGED_TYPE)
RecvChangedType(name) ==
    /\ Received
    /\ lost_variables' = Append(lost_variables, name)
    /\ UNCHANGED <<state, got_panic>>

\* recv_line fails: the worker has terminated.
RecvFails(restart_ok) ==
    /\ pc = "exec"
    /\ SubprocessTerminated(restart_ok)

\* A panic that drops every variable of the working state.
AfterExecutionDropsAll(st, panic) ==
    IF panic THEN [st EXCEPT !.variable_states = EmptyMap] ELSE st

\* The variables of the working state once the execution has completed.
AfterExecution(st, panic) ==
    IF panic THEN [st EXCEPT !.variable_states = RetainNotNew(@)] ELSE st

\* The test of the lost variables made before the test of the panic.
VariablesLostDespitePanic(panic, lost) == lost # <<>>

\* Whether the execution ends in Err(TypeRedefinedVariablesLost(lost)).
VariablesLost(panic, lost) == ~panic /\ lost # <<>>

\* The removal that forgets stored_variable_states.
DropLostVariableStatesOnly(st, lost) ==
    [st EXCEPT !.variable_states = RemoveAll(@, lost)]

\* The removal that clears the maps instead of removing the named variables.
DropLostClearsAll(st, lost) ==
    [st EXCEPT !.variable_states = EmptyMap, !.stored_variable_states = EmptyMap]

\* The Err(Error::TypeRedefinedVariablesLost(variables)) arm of run_statements.
DropLost(st, lost) ==
    [st EXCEPT !.variable_states = RemoveAll(@, lost),
               !.stored_variable_states = RemoveAll(@, lost)]

\* line == EVCXR_EXECUTION_COMPLETE, and the execution succeeded: commit.
RecvCompleteOk ==
    /\ pc = "exec"
    /\ ~VariablesLost(got_panic, lost_variables)
    /\ committed_state' = CommitState(AfterExecution(state, got_panic))
    /\ Return("Ok", <<>>)
    /\ history' = [history EXCEPT !.panicked = got_panic]
    /\ UNCHANGED child_process

\* line == EVCXR_EXECUTION_COMPLETE, and variables were lost: drop them from
\* the working and the committed state and go round the loop again.
RecvCompleteLost ==
    /\ pc = "exec"
    /\ VariablesLost(got_panic, lost_variables)
    /\ state' = DropLost(state, Range(lost_variables))
    /\ committed_state' = DropLost(committed_state, Range(lost_variables))
    /\ remaining_retries' = remaining_retries - 1
    /\ pc' = "compile"
    /\ got_panic' = FALSE
    /\ lost_variables' = <<>>
    /\ nlines' = 0
    /\ history' = [history EXCEPT !.lost = @ \cup Range(lost_variables)]
    /\ UNCHANGED <<child_process, user_code, errors, result>>

\* ------------------------------------------------------------ specification

Next ==
    \/ \E in \in Inputs : EvalSkip(in)
    \/ \E in \in Inputs : EvalEarlyError(in)
    \/ \E in \in Inputs : EvalStart(in)
    \/ \E in \in Inputs : \E types \in Analyses(in) : EvalTypeError(in, types)
    \/ TakeResult
    \/ \E ok \in BOOLEAN : Clear(ok)
    \/ CompileOk
    \/ \E ok \in BOOLEAN : SendFails(ok)
    \/ CompileOtherError
    \/ \E errs \in ErrorLists(state, user_code) :
          \E dep_ok \in AddDepOutcomes(errs) : CompileErrors(errs, dep_ok)
    \/ NoCatchOk
    \/ \E errs \in NoCatchErrorLists : NoCatchErrors(errs)
    \/ NoCatchOtherError
    \/ RecvPanic
    \/ RecvUserError
    \/ \E name \in Names : RecvChangedType(name)
    \/ \E ok \in BOOLEAN : RecvFails(ok)
    \/ RecvCompleteOk
    \/ RecvCompleteLost

Spec == Init /\ [][Next]_vars

\* A raw input is handed to from_original_user_code; no evaluation runs.
SplitInit ==
    /\ pc = "split"
    /\ user_code \in Texts
    /\ result = NoResult
    /\ committed_state = [ContextStateNew(InitialConfig) EXCEPT !.build_num = 1]
    /\ child_process = [running |-> TRUE]
    /\ state = IdleState
    /\ remaining_retries = RETRIES
    /\ errors = <<>>
    /\ got_panic = FALSE
    /\ lost_variables = <<>>
    /\ nlines = 0
    /\ history = NoHistory

\* The call returns the code block.
SplitCall ==
    /\ pc = "split"
    /\ pc' = "split_done"
    /\ result' = [kind |-> "CodeBlock", segments |-> FromOriginalUserCode(user_code)]
    /\ UNCHANGED <<committed_state, child_process, state, user_code,
                   remaining_retries, errors, got_panic, lost_variables, nlines,
                   history>>

SplitNext == SplitCall

SplitSpec == SplitInit /\ [][SplitNext]_vars

\* ------------------------------------- run_and_capture_output, line by line

\* runtime::EVCXR_EXECUTION_COMPLETE
ExecutionComplete == "EVCXR_EXECUTION_COMPLETE"

\* const PANIC_NOTIFICATION
PanicNotification == "EVCXR_PANIC_NOTIFICATION"

\* evcxr_internal_runtime::USER_ERROR_OCCURRED
UserErrorOccurred == "EVCXR_ERROR_OCCURRED"

\* The line that ends a content block.
EndContent == "EVCXR_END_CONTENT"

\* The request the core sends before it reads.
LoadAndRun == "LOAD_AND_RUN so run_user_code_2"

\* The lines the worker can write: the sentinels, an input request with and
\* without the password flag, a variable-lost line, the two lines that
\* bracket a content block, and three lines of output of the user's code: an
\* empty one, `x`, and one that has the begin-content marker after its start.
WorkerLines ==
    {ExecutionComplete, PanicNotification, UserErrorOccurred, EndContent,
     "EVCXR_INPUT_REQUEST:p", "EVCXR_INPUT_REQUEST_PASSWORD:p",
     "EVCXR_VARIABLE_CHANGED_TYPE:a", "EVCXR_BEGIN_CONTENT text/html",
     "x", "", "x EVCXR_BEGIN_CONTENT text/html"}

\* What the worker writes before it stops writing: it has ended, or it waits.
WorkerOutputs == UNION {[1..n -> WorkerLines] : n \in 0..MaxRead}

\* line.starts_with(evcxr_input::GET_CMD)
StartsWithGetCmd(line) ==
    line \in {"EVCXR_INPUT_REQUEST:p", "EVCXR_INPUT_REQUEST_PASSWORD:p"}

\* line.starts_with(evcxr_input::GET_CMD_PASSWORD)
StartsWithGetCmdPassword(line) == line = "EVCXR_INPUT_REQUEST_PASSWORD:p"

\* line.split(':').nth(1).unwrap_or_default()
Prompt(line) == IF StartsWithGetCmd(line) THEN "p" ELSE ""

\* struct InputRequest
InputRequest(line) ==
    [prompt |-> Prompt(line), is_password |-> StartsWithGetCmdPassword(line)]

\* The caller's callbacks.input_reader: what it answers to a request.
InputReader(request) == IF request.is_password THEN "secret" ELSE "answer"

\* line.strip_prefix(VARIABLE_CHANGED_TYPE): the name, or nothing.
StripChangedType(line) ==
    IF line = "EVCXR_VARIABLE_CHANGED_TYPE:a" THEN <<"a">> ELSE <<>>

\* ContentMimeType::text prints the line that begins a block: the marker at
\* the start of the line, a space and the MIME type.
BeginsContent(line) == line = "EVCXR_BEGIN_CONTENT text/html"

\* mime_output.captures(&line): the MIME type, or nothing.  The expression
\* has no anchor: it matches the marker wherever it stands in the line.
MimeOutputCaptures(line) ==
    IF line \in {"EVCXR_BEGIN_CONTENT text/html", "x EVCXR_BEGIN_CONTENT text/html"}
    THEN <<"text/html">>
    ELSE <<>>

\* content, a string, as the sequence of the line feeds and the non-empty
\* lines pushed to it: the push of one more line of a block.
PushLine(content, line) ==
    LET fed == IF content # <<>> THEN Append(content, "\n") ELSE content
    IN IF line = "" THEN fed ELSE Append(fed, line)

\* output.content_by_mime_type.insert(mime_type, content)
Insert(map, key, value) ==
    [k \in (DOMAIN map) \cup {key} |-> IF k = key THEN value ELSE map[k]]

\* ChildProcess::send: the line is written to the worker's stdin.
Send(cp, line) == [cp EXCEPT !.stdin = Append(@, line)]

\* ChildProcess::recv_line, when the worker has written a line.
RecvLine(cp) == Head(cp.stdout)

\* The child process once the line has been taken from its stdout.
Taken(cp) == [cp EXCEPT !.stdout = Tail(@)]

\* The working state of an execution: `a` has been committed before and `b`
\* is defined by the code that runs.
ReadState ==
    [ContextStateNew(InitialConfig) EXCEPT
        !.variable_states =
            [n \in Names |->
                IF n = "a" THEN VariableState("i32", FALSE, "Available", FALSE)
                ELSE VariableState("String", TRUE, "New", TRUE)],
        !.build_num = 2]

\* What run_and_capture_output holds while it reads: its output and, inside
\* a block, mime_type and content; kind is what it has returned, if it has.
ReadFrame(kind, output, mime_type, content) ==
    [kind |-> kind, errors |-> <<>>, output |-> output,
     mime_type |-> mime_type, content |-> content]

\* LOAD_AND_RUN has been sent and build_num counted: the loop begins.  The
\* history holds what has reached the stdout channel, whose receiver the
\* caller keeps, and the requests the input callback was called with.
ReadInit ==
    /\ pc = "read"
    /\ child_process \in
           {[running |-> TRUE, stdout |-> out, stdin |-> <<LoadAndRun>>] :
               out \in WorkerOutputs}
    /\ state = ReadState
    /\ got_panic = FALSE
    /\ lost_variables = <<>>
    /\ nlines = 0
    /\ result = ReadFrame("None", EmptyMap, "", <<>>)
    /\ history = [stdout_sender |-> <<>>, input_reader |-> <<>>]
    /\ committed_state = [ContextStateNew(InitialConfig) EXCEPT !.build_num = 1]
    /\ user_code = CodeBlock(TRUE, FALSE, FALSE)
    /\ remaining_retries = RETRIES
    /\ errors = <<>>

\* A line is taken in the outer loop and the loop goes on.
ReadOn(line) ==
    /\ pc = "read"
    /\ child_process.stdout # <<>>
    /\ line = RecvLine(child_process)
    /\ line # ExecutionComplete
    /\ nlines' = nlines + 1
    /\ UNCHANGED <<committed_state, user_code, remaining_retries, errors>>

\* recv_line()? fails in either loop: the worker has gone.
ReadFails ==
    /\ pc \in {"read", "content"}
    /\ child_process.stdout = <<>>
    /\ pc' = "returned"
    /\ child_process' = [child_process EXCEPT !.running = FALSE]
    /\ result' = ReadFrame("SubprocessTerminated", EmptyMap, "", <<>>)
    /\ UNCHANGED <<committed_state, state, user_code, remaining_retries, errors,
                   got_panic, lost_variables, nlines, history>>

\* line == EVCXR_EXECUTION_COMPLETE: the loop ends and the function returns.
ReadComplete ==
    /\ pc = "read"
    /\ child_process.stdout # <<>>
    /\ RecvLine(child_process) = ExecutionComplete
    /\ pc' = "returned"
    /\ child_process' = Taken(child_process)
    /\ state' = IF got_panic
                THEN [state EXCEPT !.variable_states = RetainNotNew(@)]
                ELSE state
    /\ result' = IF VariablesLost(got_panic, lost_variables)
                 THEN ReadFrame("TypeRedefinedVariablesLost", EmptyMap, "", <<>>)
                 ELSE ReadFrame("Ok", result.output, "", <<>>)
    /\ UNCHANGED <<committed_state, user_code, remaining_retries, errors,
                   got_panic, lost_variables, nlines, history>>

\* line == PANIC_NOTIFICATION
ReadPanic ==
    \E line \in WorkerLines :
        /\ ReadOn(line)
        /\ line = PanicNotification
        /\ got_panic' = TRUE
        /\ child_process' = Taken(child_process)
        /\ UNCHANGED <<pc, state, lost_variables, result, history>>

\* The input request answered with the prompt it carries.
ReadInputRequestEchoesPrompt ==
    \E line \in WorkerLines :
        /\ ReadOn(line)
        /\ line # PanicNotification
        /\ StartsWithGetCmd(line)
        /\ child_process' = Send(Taken(child_process), Prompt(line))
        /\ history' = [history EXCEPT !.input_reader = Append(@, InputRequest(line))]
        /\ UNCHANGED <<pc, state, got_panic, lost_variables, result>>

\* line.starts_with(GET_CMD): the callback is called and its answer sent.
ReadInputRequest ==
    \E line \in WorkerLines :
        /\ ReadOn(line)
        /\ line # PanicNotification
        /\ StartsWithGetCmd(line)
        /\ child_process' = Send(Taken(child_process), InputReader(InputRequest(line)))
        /\ history' = [history EXCEPT !.input_reader = Append(@, InputRequest(line))]
        /\ UNCHANGED <<pc, state, got_panic, lost_variables, result>>

\* The same arm when send(..)? fails: the callback has been called, the worker
\* has ended after its request and the error is returned.
ReadInputRequestSendFails ==
    \E line \in WorkerLines :
        /\ ReadOn(line)
        /\ line # PanicNotification
        /\ StartsWithGetCmd(line)
        /\ Tail(child_process.stdout) = <<>>
        /\ pc' = "returned"
        /\ child_process' = [Taken(child_process) EXCEPT !.running = FALSE]
        /\ history' = [history EXCEPT !.input_reader = Append(@, InputRequest(line))]
        /\ result' = ReadFrame("SubprocessTerminated", EmptyMap, "", <<>>)
        /\ UNCHANGED <<state, got_panic, lost_variables>>

\* line == USER_ERROR_OCCURRED
ReadUserError ==
    \E line \in WorkerLines :
        /\ ReadOn(line)
        /\ line # PanicNotification
        /\ ~StartsWithGetCmd(line)
        /\ line = UserErrorOccurred
        /\ state' = [state EXCEPT !.variable_states = RetainNotNew(@)]
        /\ child_process' = Taken(child_process)
        /\ UNCHANGED <<pc, got_panic, lost_variables, result, history>>

\* line.strip_prefix(VARIABLE_CHANGED_TYPE)
ReadChangedType ==
    \E line \in WorkerLines :
        /\ ReadOn(line)
        /\ line # PanicNotification
        /\ ~StartsWithGetCmd(line)
        /\ line # UserErrorOccurred
        /\ StripChangedType(line) # <<>>
        /\ lost_variables' = Append(lost_variables, StripChangedType(line)[1])
        /\ child_process' = Taken(child_process)
        /\ UNCHANGED <<pc, state, got_panic, result, history>>

\* mime_output.captures(&line): a content block begins.
ReadBeginContent ==
    \E line \in WorkerLines :
        /\ ReadOn(line)
        /\ line # PanicNotification
        /\ ~StartsWithGetCmd(line)
        /\ line # UserErrorOccurred
        /\ StripChangedType(line) = <<>>
        /\ MimeOutputCaptures(line) # <<>>
        /\ pc' = "content"
        /\ result' = ReadFrame("None", result.output, MimeOutputCaptures(line)[1], <<>>)
        /\ child_process' = Taken(child_process)
        /\ UNCHANGED <<state, got_panic, lost_variables, history>>

\* The last arm: let _ = self.stdout_sender.send(line)
ReadPlain ==
    \E line \in WorkerLines :
        /\ ReadOn(line)
        /\ line # PanicNotification
        /\ ~StartsWithGetCmd(line)
        /\ line # UserErrorOccurred
        /\ StripChangedType(line) = <<>>
        /\ MimeOutputCaptures(line) = <<>>
        /\ history' = [history EXCEPT !.stdout_sender = Append(@, line)]
        /\ child_process' = Taken(child_process)
        /\ UNCHANGED <<pc, state, got_panic, lost_variables, result>>

\* A line is taken in the inner loop.
ContentOn(line) ==
    /\ pc = "content"
    /\ child_process.stdout # <<>>
    /\ line = RecvLine(child_process)
    /\ child_process' = Taken(child_process)
    /\ nlines' = nlines + 1
    /\ UNCHANGED <<committed_state, state, user_code, remaining_retries, errors,
                   lost_variables, history>>

\* line == "EVCXR_END_CONTENT": the block is stored under its MIME type.
ContentEnd ==
    \E line \in WorkerLines :
        /\ ContentOn(line)
        /\ line = EndContent
        /\ pc' = "read"
        /\ result' = ReadFrame("None",
                               Insert(result.output, result.mime_type, result.content),
                               "", <<>>)
        /\ UNCHANGED got_panic

\* line == PANIC_NOTIFICATION inside a block: the block ends early.
ContentPanic ==
    \E line \in WorkerLines :
        /\ ContentOn(line)
        /\ line # EndContent
        /\ line = PanicNotification
        /\ got_panic' = TRUE
        /\ pc' = "read"
        /\ result' = ReadFrame("None",
                               Insert(result.output, result.mime_type, result.content),
                               "", <<>>)

\* The line of a block that is also taken for an input request.
ContentLineAnswersRequest ==
    \E line \in WorkerLines :
        /\ pc = "content"
        /\ child_process.stdout # <<>>
        /\ line = RecvLine(child_process)
        /\ line # EndContent
        /\ line # PanicNotification
        /\ child_process' =
               IF StartsWithGetCmd(line)
               THEN Send(Taken(child_process), InputReader(InputRequest(line)))
               ELSE Taken(child_process)
        /\ history' =
               IF StartsWithGetCmd(line)
               THEN [history EXCEPT !.input_reader = Append(@, InputRequest(line))]
               ELSE history
        /\ nlines' = nlines + 1
        /\ result' = [result EXCEPT !.content = PushLine(@, line)]
        /\ UNCHANGED <<committed_state, state, user_code, remaining_retries,
                       errors, lost_variables, pc, got_panic>>

\* Any other line inside a block: content.push_str(&line)
ContentLine ==
    \E line \in WorkerLines :
        /\ ContentOn(line)
        /\ line # EndContent
        /\ line # PanicNotification
        /\ result' = [result EXCEPT !.content = PushLine(@, line)]
        /\ UNCHANGED <<pc, got_panic>>

ReadNext ==
    \/ ReadFails
    \/ ReadComplete
    \/ ReadPanic
    \/ ReadInputRequest
    \/ ReadInputRequestSendFails
    \/ ReadUserError
    \/ ReadChangedType
    \/ ReadBeginContent
    \/ ReadPlain
    \/ ContentEnd
    \/ ContentPanic
    \/ ContentLine

ReadSpec == ReadInit /\ [][ReadNext]_vars

\* ------------------------------------------------- the worker: Runtime::run_loop

\* The lines the worker can find on its stdin: requests for two libraries, for
\* a file that cannot be loaded, for a symbol the library has not, and a line
\* that is no request.
RequestLines ==
    {"LOAD_AND_RUN so1 f", "LOAD_AND_RUN so2 f", "LOAD_AND_RUN missing f",
     "LOAD_AND_RUN so1 nofn", "quit"}

\* load_and_run.captures(line): the path and the symbol, or nothing.
LoadAndRunCaptures(line) ==
    CASE line = "LOAD_AND_RUN so1 f" -> <<"so1", "f">>
      [] line = "LOAD_AND_RUN so2 f" -> <<"so2", "f">>
      [] line = "LOAD_AND_RUN missing f" -> <<"missing", "f">>
      [] line = "LOAD_AND_RUN so1 nofn" -> <<"so1", "nofn">>
      [] OTHER -> <<>>

\* libloading::Library::new(so_path) succeeds.
LibraryNew(so_path) == so_path \in {"so1", "so2"}

\* shared_object.get(fn_name) succeeds.
LibraryGet(fn_name) == fn_name = "f"

\* struct Runtime, with the library that load_and_run holds before it is pushed.
Runtime(shared_objects, variable_store_ptr, shared_object) ==
    [kind |-> "Runtime", errors |-> <<>>, shared_objects |-> shared_objects,
     variable_store_ptr |-> variable_store_ptr, shared_object |-> shared_object]

\* Runtime::new() and the start of run_loop: nothing is loaded, the store
\* pointer is null, and the lines of the session wait on stdin.
RuntimeInit ==
    /\ pc = "run_loop"
    /\ child_process \in
           {[running |-> TRUE, stdout |-> <<>>, stdin |-> in] :
               in \in UNION {[1..n -> RequestLines] : n \in 0..MaxRequests}}
    /\ result = Runtime(<<>>, 0, "")
    /\ history = [exit_code |-> -1]
    /\ state = ContextStateNew(InitialConfig)
    /\ committed_state = ContextStateNew(InitialConfig)
    /\ user_code = CodeBlock(TRUE, FALSE, FALSE)
    /\ remaining_retries = RETRIES
    /\ errors = <<>>
    /\ got_panic = FALSE
    /\ lost_variables = <<>>
    /\ nlines = 0

\* std::process::exit(code): the process and all it has loaded are gone.
Exit(code) ==
    /\ pc' = "exited"
    /\ result' = Runtime(<<>>, 0, "")
    /\ history' = [exit_code |-> code]
    /\ UNCHANGED <<committed_state, state, user_code, remaining_retries, errors,
                   got_panic, lost_variables, nlines>>

\* The loop takes the next line of stdin.
NextLine(line) ==
    /\ pc = "run_loop"
    /\ child_process.stdin # <<>>
    /\ line = Head(child_process.stdin)

\* handle_line bails on a line that is no request: exit(99).
HandleUnrecognised ==
    \E line \in RequestLines :
        /\ NextLine(line)
        /\ LoadAndRunCaptures(line) = <<>>
        /\ child_process' = [child_process EXCEPT !.stdin = Tail(@), !.running = FALSE]
        /\ Exit(99)

\* Library::new or the lookup of the symbol fails: exit(99).
LoadFails ==
    \E line \in RequestLines :
        /\ NextLine(line)
        /\ LoadAndRunCaptures(line) # <<>>
        /\ \/ ~LibraryNew(LoadAndRunCaptures(line)[1])
           \/ ~LibraryGet(LoadAndRunCaptures(line)[2])
        /\ child_process' = [child_process EXCEPT !.stdin = Tail(@), !.running = FALSE]
        /\ Exit(99)

\* The library is loaded and its entry symbol called; it returns the store.
UserFnReturns ==
    \E line \in RequestLines :
        /\ NextLine(line)
        /\ LoadAndRunCaptures(line) # <<>>
        /\ LibraryNew(LoadAndRunCaptures(line)[1])
        /\ LibraryGet(LoadAndRunCaptures(line)[2])
        /\ pc' = "ran"
        /\ child_process' = [child_process EXCEPT !.stdin = Tail(@)]
        /\ result' = Runtime(result.shared_objects, result.variable_store_ptr + 1,
                             LoadAndRunCaptures(line)[1])
        /\ UNCHANGED <<committed_state, state, user_code, remaining_retries,
                       errors, got_panic, lost_variables, nlines, history>>

\* The entry symbol is called and does not return: the user's code has ended
\* the process, or a crash handler has.
UserFnEndsProcess ==
    \E line \in RequestLines :
        /\ NextLine(line)
        /\ LoadAndRunCaptures(line) # <<>>
        /\ LibraryNew(LoadAndRunCaptures(line)[1])
        /\ LibraryGet(LoadAndRunCaptures(line)[2])
        /\ child_process' = [child_process EXCEPT !.stdin = Tail(@), !.running = FALSE]
        /\ Exit(1)

\* println!("{EVCXR_EXECUTION_COMPLETE}")
PrintComplete ==
    /\ pc = "ran"
    /\ pc' = "printed"
    /\ child_process' = [child_process EXCEPT !.stdout = Append(@, ExecutionComplete)]
    /\ UNCHANGED <<committed_state, state, user_code, remaining_retries, errors,
                   got_panic, lost_variables, nlines, result, history>>

\* The push that puts the new library in the place of the list.
PushReplacesList ==
    /\ pc = "printed"
    /\ pc' = "run_loop"
    /\ result' = Runtime(<<result.shared_object>>, result.variable_store_ptr, "")
    /\ UNCHANGED <<committed_state, state, user_code, remaining_retries, errors,
                   got_panic, lost_variables, nlines, child_process, history>>

\* self.shared_objects.push(shared_object); Ok(())
Push ==
    /\ pc = "printed"
    /\ pc' = "run_loop"
    /\ result' = Runtime(Append(result.shared_objects, result.shared_object),
                         result.variable_store_ptr, "")
    /\ UNCHANGED <<committed_state, state, user_code, remaining_retries, errors,
                   got_panic, lost_variables, nlines, child_process, history>>

\* stdin is at its end: exit(0).
EndOfInput ==
    /\ pc = "run_loop"
    /\ child_process.stdin = <<>>
    /\ child_process' = [child_process EXCEPT !.running = FALSE]
    /\ Exit(0)

RuntimeNext ==
    \/ HandleUnrecognised
    \/ LoadFails
    \/ UserFnReturns
    \/ UserFnEndsProcess
    \/ PrintComplete
    \/ Push
    \/ EndOfInput

RuntimeSpec == RuntimeInit /\ [][RuntimeNext]_vars

\* ------------------------------------------------ CompilationError::opt_new

\* get_code_origins of a diagnostic: the kinds of the lines its spans cover.
OriginLists ==
    UNION {[1..n -> {OriginalUserCode, OtherGeneratedCode}] : n \in 0..MaxOrigins}

\* The messages of the i-th child and of the top-level diagnostic; the
\* compiler's closing line is one that opt_new drops.
ChildMessage(i) == <<"help 1", "help 2", "help 3", "help 4">>[i]

ParentMessages == {"mismatched types", "aborting due to previous error"}

\* The children of a diagnostic: each has a message and spans.
ChildLists ==
    UNION {{[i \in 1..n |-> [message |-> ChildMessage(i), origins |-> os[i]]] :
               os \in [1..n -> OriginLists]} : n \in 0..MaxChildren}

\* The payloads of the compiler: a message, spans and children.
Jsons ==
    {[message |-> m, origins |-> os, children |-> cs] :
        m \in ParentMessages, os \in OriginLists, cs \in ChildLists}

\* code_origins.iter().any(|k| k.is_user_supplied())
AnyUserSupplied(origins) ==
    \E i \in 1..Len(origins) : IsUserSupplied(origins[i])

RECURSIVE OptNewChildrenKeepsOrigins(_, _, _)
RECURSIVE OptNewChildren(_, _, _)

\* The loop in which the child that is used adds its origins to those
\* collected before it.
OptNewChildrenKeepsOrigins(json, code_origins, i) ==
    IF i > Len(json.children)
    THEN [json |-> json, code_origins |-> code_origins]
    ELSE LET child == json.children[i]
         IN IF ~AnyUserSupplied(code_origins) /\ AnyUserSupplied(child.origins)
            THEN [json |-> child, code_origins |-> code_origins \o child.origins]
            ELSE OptNewChildrenKeepsOrigins(json, code_origins \o child.origins, i + 1)

\* The loop over the children from the i-th on: the payload in use and the
\* origins collected.  A child replaces both and ends the loop.
OptNewChildren(json, code_origins, i) ==
    IF i > Len(json.children)
    THEN [json |-> json, code_origins |-> code_origins]
    ELSE LET child == json.children[i]
         IN IF ~AnyUserSupplied(code_origins) /\ AnyUserSupplied(child.origins)
            THEN [json |-> child, code_origins |-> child.origins]
            ELSE OptNewChildren(json, code_origins \o child.origins, i + 1)

\* message.starts_with("aborting due to") and the two other closing lines.
IsClosingMessage(message) == message = "aborting due to previous error"

\* CompilationError::opt_new: None, or the error with its message and origins.
OptNew(json) ==
    LET used == OptNewChildren(json, json.origins, 1)
    IN IF IsClosingMessage(used.json.message)
       THEN [kind |-> "None", message |-> "", code_origins |-> <<>>]
       ELSE [kind |-> "Some", message |-> used.json.message,
             code_origins |-> used.code_origins]

\* A payload of the compiler is handed to opt_new; no evaluation runs.
OptNewInit ==
    /\ pc = "opt_new"
    /\ user_code \in Jsons
    /\ result = NoResult
    /\ committed_state = [ContextStateNew(InitialConfig) EXCEPT !.build_num = 1]
    /\ child_process = [running |-> TRUE]
    /\ state = IdleState
    /\ remaining_retries = RETRIES
    /\ errors = <<>>
    /\ got_panic = FALSE
    /\ lost_variables = <<>>
    /\ nlines = 0
    /\ history = NoHistory

\* The call returns.
OptNewCall ==
    /\ pc = "opt_new"
    /\ pc' = "opt_new_done"
    /\ result' = OptNew(user_code)
    /\ UNCHANGED <<committed_state, child_process, state, user_code,
                   remaining_retries, errors, got_panic, lost_variables, nlines,
                   history>>

OptNewNext == OptNewCall

OptNewSpec == OptNewInit /\ [][OptNewNext]_vars

\* ------------------------------------------------------------- Segment::new

\* A text is handed to Segment::new; no evaluation runs.
SegmentInit ==
    /\ pc = "segment"
    /\ user_code \in Texts
    /\ result = NoResult
    /\ committed_state = [ContextStateNew(InitialConfig) EXCEPT !.build_num = 1]
    /\ child_process = [running |-> TRUE]
    /\ state = IdleState
    /\ remaining_retries = RETRIES
    /\ errors = <<>>
    /\ got_panic = FALSE
    /\ lost_variables = <<>>
    /\ nlines = 0
    /\ history = NoHistory

\* The call returns the segment.
SegmentCall ==
    /\ pc = "segment"
    /\ pc' = "segment_done"
    /\ result' = [kind |-> "Segment", segment |-> SegmentNew("OtherUserCode", user_code)]
    /\ UNCHANGED <<committed_state, child_process, state, user_code,
                   remaining_retries, errors, got_panic, lost_variables, nlines,
                   history>>

SegmentNext == SegmentCall

SegmentSpec == SegmentInit /\ [][SegmentNext]_vars

\* ------------------------------------------ CodeBlock::commit_old_user_code

\* struct Segment with its sequence id: None, or the index of a statement.
SegmentWithSequence(kind, code, sequence) ==
    [kind |-> kind, code |-> code, num_lines |-> NumLines(code),
     sequence |-> sequence]

\* The segments an item of the state can hold.
ItemSegments ==
    {SegmentWithSequence(k, c, s) :
        k \in {OriginalUserCode, OtherUserCode, OtherGeneratedCode},
        c \in {<<"d", "\n">>, <<"d", "\n", "d", "\n">>},
        s \in {"None", "Some(0)"}}

\* The code blocks an item of the state can hold.
Blocks == UNION {[1..n -> ItemSegments] : n \in 0..MaxSegments}

\* The loop that stops after the first segment of original user code.
CommitOldUserCodeFirstOnly(segments) ==
    [k \in 1..Len(segments) |->
        IF /\ segments[k].kind.kind = "OriginalUserCode"
           /\ \A j \in 1..(k - 1) : segments[j].kind.kind # "OriginalUserCode"
        THEN [segments[k] EXCEPT !.kind = OtherUserCode]
        ELSE segments[k]]

\* CodeBlock::commit_old_user_code
CommitOldUserCode(segments) ==
    [k \in 1..Len(segments) |->
        IF segments[k].kind.kind = "OriginalUserCode"
        THEN [segments[k] EXCEPT !.kind = OtherUserCode]
        ELSE segments[k]]

\* ContextState::commit_old_user_code: every code block of the state.
CommitItems(items) == [i \in DOMAIN items |-> CommitOldUserCode(items[i])]

\* commit_state on a state whose items are held segment by segment.
CommitStateOfBlocks(st) ==
    [CommitState(st) EXCEPT !.items_by_name = CommitItems(st.items_by_name)]

\* A working state with one item, or none, is about to be committed.
CommitInit ==
    /\ pc = "commit"
    /\ state \in
           {[ContextStateNew(InitialConfig) EXCEPT !.items_by_name = items] :
               items \in {EmptyMap} \cup {[i \in {"foo"} |-> b] : b \in Blocks}}
    /\ committed_state = [ContextStateNew(InitialConfig) EXCEPT !.build_num = 1]
    /\ result = NoResult
    /\ child_process = [running |-> TRUE]
    /\ user_code = CodeBlock(FALSE, FALSE, FALSE)
    /\ remaining_retries = RETRIES
    /\ errors = <<>>
    /\ got_panic = FALSE
    /\ lost_variables = <<>>
    /\ nlines = 0
    /\ history = NoHistory

\* self.commit_state(state)
CommitStateCall ==
    /\ pc = "commit"
    /\ pc' = "commit_done"
    /\ committed_state' = CommitStateOfBlocks(state)
    /\ UNCHANGED <<child_process, state, user_code, remaining_retries, errors,
                   got_panic, lost_variables, nlines, result, history>>

\* commit_old_user_code is applied once more, to the blocks just committed.
CommitAgain ==
    /\ pc = "commit_done"
    /\ pc' = "commit_again"
    /\ result' = [kind |-> "Items", errors |-> <<>>,
                  items |-> CommitItems(committed_state.items_by_name)]
    /\ UNCHANGED <<committed_state, child_process, state, user_code,
                   remaining_retries, errors, got_panic, lost_variables, nlines,
                   history>>

CommitNext ==
    \/ CommitStateCall
    \/ CommitAgain

CommitSpec == CommitInit /\ [][CommitNext]_vars

\* ---------------------------------------------------- the Jupyter server

\* The mutexes: the four of struct Server and the one around CommandContext.
Mutexes == {"iopub", "stdin", "latest_execution_request", "shutdown_sender",
            "context"}

\* The identities of the execute requests, which are also the names of the
\* blocking threads that spawn_blocking starts for them.
RequestIds == <<"r1", "r2", "r3", "r4">>

\* An execute request: whether its content allows stdin, how many times its
\* code asks for input, and whether its evaluation returns outputs or errors.
ExecuteRequests(n) ==
    {[i \in 1..n |-> [id |-> RequestIds[i], allow_stdin |-> f[i].allow_stdin,
                      inputs |-> f[i].inputs, outcome |-> f[i].outcome]] :
        f \in [1..n -> {[allow_stdin |-> a, inputs |-> k, outcome |-> o] :
                           a \in BOOLEAN, k \in 0..MaxInputs, o \in {"Ok", "Err"}}
                       \ {[allow_stdin |-> TRUE, inputs |-> 0, outcome |-> o] :
                           o \in {"Ok", "Err"}}]}

\* The place of a request in the order of arrival.
Index(id) == CHOOSE i \in 1..Len(RequestIds) : RequestIds[i] = id

\* mutex.lock(): the thread holds the mutex.
Lock(mutexes, mutex, thread) == [mutexes EXCEPT ![mutex] = thread]

\* The guard is dropped.
Unlock(mutexes, mutex) == [mutexes EXCEPT ![mutex] = "free"]

\* The places of the blocking threads: none has been started.
NoneStarted == [i \in Range(RequestIds) |-> "none"]

\* The server after start: the tasks are spawned and no mutex is held; the
\* execute requests wait in the execution channel in their order of arrival.
\* The closure of a blocking thread owns its message and counts the input
\* requests its code has still to make.
JupyterInit ==
    /\ pc = [execution |-> "recv", shell |-> "read", control |-> "wait"]
    /\ state = [m \in Mutexes |-> "free"]
    /\ user_code \in UNION {ExecuteRequests(n) : n \in 0..MaxExecuteRequests}
    /\ result = [kind |-> "Server", errors |-> <<>>, message |-> <<>>,
                 blocking |-> NoneStarted,
                 moved |-> [i \in 1..Len(user_code) |-> user_code[i]],
                 inputs_left |-> [i \in 1..Len(user_code) |-> user_code[i].inputs]]
    /\ history = [arrived |-> [i \in 1..Len(user_code) |-> user_code[i].id],
                  started |-> <<>>, ended |-> <<>>]
    /\ nlines \in 0..MaxShellMessages
    /\ committed_state = [ContextStateNew(InitialConfig) EXCEPT !.build_num = 1]
    /\ child_process = [running |-> TRUE]
    /\ remaining_retries = RETRIES
    /\ errors = <<>>
    /\ got_panic = FALSE
    /\ lost_variables = <<>>

\* What no step of the server touches.
ServerFrame ==
    UNCHANGED <<committed_state, child_process, remaining_retries, errors,
                got_panic, lost_variables>>

\* The execution task moves from one place to the next.
ExecutionStep(from, to) ==
    /\ pc.execution = from
    /\ pc' = [pc EXCEPT !.execution = to]
    /\ ServerFrame

\* receiver.recv().await returns the next execute request.
ExecutionRecv ==
    /\ ExecutionStep("recv", "lock_latest")
    /\ user_code # <<>>
    /\ user_code' = Tail(user_code)
    /\ result' = [result EXCEPT !.message = <<Head(user_code)>>]
    /\ UNCHANGED <<state, history, nlines>>

\* self.latest_execution_request.lock().await
ExecutionLockLatest ==
    /\ ExecutionStep("lock_latest", "latest_locked")
    /\ state.latest_execution_request = "free"
    /\ state' = Lock(state, "latest_execution_request", "execution")
    /\ UNCHANGED <<user_code, result, history, nlines>>

\* The request is stored and the guard dropped at the end of the statement.
ExecutionUnlockLatest ==
    /\ ExecutionStep("latest_locked", "lock_iopub_input")
    /\ state' = Unlock(state, "latest_execution_request")
    /\ UNCHANGED <<user_code, result, history, nlines>>

\* self.iopub.lock().await, to send execute_input.
ExecutionLockIopubInput ==
    /\ ExecutionStep("lock_iopub_input", "iopub_input_locked")
    /\ state.iopub = "free"
    /\ state' = Lock(state, "iopub", "execution")
    /\ UNCHANGED <<user_code, result, history, nlines>>

\* execute_input is sent, or the send fails and the task returns the error;
\* the guard is dropped in both cases.
ExecutionSendInput(sent) ==
    /\ ExecutionStep("iopub_input_locked", IF sent THEN "spawn" ELSE "returned")
    /\ state' = Unlock(state, "iopub")
    /\ UNCHANGED <<user_code, result, history, nlines>>

\* tokio::task::spawn_blocking(..): the blocking thread of the request starts.
ExecutionSpawnBlocking ==
    /\ ExecutionStep("spawn", "await")
    /\ result' = [result EXCEPT !.blocking[result.message[1].id] = "lock_context"]
    /\ UNCHANGED <<state, user_code, history, nlines>>

\* The task that goes on without the result of the blocking thread.
ExecutionGoesOnWithoutResult(empty) ==
    /\ ExecutionStep("await", "recv")
    /\ UNCHANGED <<state, user_code, result, history, nlines>>

\* .await? on the blocking thread: the task goes on when it has ended.  With
\* outputs that are empty and carry no timing, the reply is sent at once.
ExecutionAwait(empty) ==
    /\ ExecutionStep("await",
                     IF result.message[1].outcome = "Err" THEN "emit_errors"
                     ELSE IF empty THEN "recv" ELSE "lock_iopub_result")
    /\ result.blocking[result.message[1].id] = "done"
    /\ UNCHANGED <<state, user_code, result, history, nlines>>

\* self.iopub.lock().await, to send execute_result.
ExecutionLockIopubResult ==
    /\ ExecutionStep("lock_iopub_result", "iopub_result_locked")
    /\ state.iopub = "free"
    /\ state' = Lock(state, "iopub", "execution")
    /\ UNCHANGED <<user_code, result, history, nlines>>

\* execute_result is sent and the reply goes to the shell task, or the send
\* fails and the task returns the error.
ExecutionSendResult(sent) ==
    /\ ExecutionStep("iopub_result_locked", IF sent THEN "recv" ELSE "returned")
    /\ state' = Unlock(state, "iopub")
    /\ UNCHANGED <<user_code, result, history, nlines>>

\* self.emit_errors(..).await? and the error reply.
ExecutionEmitErrors(sent) ==
    /\ ExecutionStep("emit_errors", IF sent THEN "recv" ELSE "returned")
    /\ UNCHANGED <<state, user_code, result, history, nlines>>

\* A blocking thread moves from one place to the next.
BlockingStep(id, from, to) ==
    /\ result.blocking[id] = from
    /\ result' = [result EXCEPT !.blocking[id] = to]
    /\ UNCHANGED <<pc, user_code, nlines>>
    /\ ServerFrame

\* context.lock().unwrap(): the evaluation begins.
BlockingLockContext(id) ==
    /\ BlockingStep(id, "lock_context", "executing")
    /\ state.context = "free"
    /\ state' = Lock(state, "context", id)
    /\ history' = [history EXCEPT !.started = Append(@, id)]

\* The input callback when the request does not allow stdin: None.
BlockingInputRefused(id) ==
    /\ result.blocking[id] = "executing"
    /\ result.inputs_left[Index(id)] > 0
    /\ ~result.moved[Index(id)].allow_stdin
    /\ result' = [result EXCEPT !.inputs_left[Index(id)] = @ - 1]
    /\ UNCHANGED <<pc, state, user_code, history, nlines>>
    /\ ServerFrame

\* The input callback: block_on(request_input) takes self.stdin.lock().await.
BlockingLockStdin(id) ==
    /\ BlockingStep(id, "executing", "input")
    /\ result.inputs_left[Index(id)] > 0
    /\ result.moved[Index(id)].allow_stdin
    /\ state.stdin = "free"
    /\ state' = Lock(state, "stdin", id)
    /\ UNCHANGED history

\* The input request is sent and the answer read, or either fails; the guard
\* is dropped when request_input returns.
BlockingUnlockStdin(id) ==
    /\ result.blocking[id] = "input"
    /\ result' = [result EXCEPT !.blocking[id] = "executing",
                                !.inputs_left[Index(id)] = @ - 1]
    /\ state' = Unlock(state, "stdin")
    /\ UNCHANGED <<pc, user_code, history, nlines>>
    /\ ServerFrame

\* execute_with_callbacks returns and the guard of the context is dropped.
BlockingReturn(id) ==
    /\ BlockingStep(id, "executing", "done")
    /\ result.inputs_left[Index(id)] = 0
    /\ state' = Unlock(state, "context")
    /\ history' = [history EXCEPT !.ended = Append(@, id)]

\* The shell task moves from one place to the next.
ShellStep(from, to) ==
    /\ pc.shell = from
    /\ pc' = [pc EXCEPT !.shell = to]
    /\ UNCHANGED <<user_code, result, history>>
    /\ ServerFrame

\* JupyterMessage::read(&mut connection).await
ShellRead ==
    /\ ShellStep("read", "lock_iopub")
    /\ nlines > 0
    /\ nlines' = nlines - 1
    /\ UNCHANGED state

\* self.iopub.lock().await, to send the busy status.
ShellLockIopub ==
    /\ ShellStep("lock_iopub", "iopub_locked")
    /\ state.iopub = "free"
    /\ state' = Lock(state, "iopub", "shell")
    /\ UNCHANGED nlines

\* The status is sent, or the send fails and the task returns the error.
ShellSendBusy(sent) ==
    /\ ShellStep("iopub_locked", IF sent THEN "read" ELSE "returned")
    /\ state' = Unlock(state, "iopub")
    /\ UNCHANGED nlines

\* signal_shutdown: self.shutdown_sender.lock().await
ControlLockShutdown ==
    /\ pc.control = "wait"
    /\ state.shutdown_sender = "free"
    /\ pc' = [pc EXCEPT !.control = "shutdown_locked"]
    /\ state' = Lock(state, "shutdown_sender", "control")
    /\ UNCHANGED <<user_code, result, history, nlines>>
    /\ ServerFrame

\* .take(): the sender is dropped, and the guard with it.
ControlTakeSender ==
    /\ pc.control = "shutdown_locked"
    /\ pc' = [pc EXCEPT !.control = "done"]
    /\ state' = Unlock(state, "shutdown_sender")
    /\ UNCHANGED <<user_code, result, history, nlines>>
    /\ ServerFrame

JupyterNext ==
    \/ ExecutionRecv
    \/ ExecutionLockLatest
    \/ ExecutionUnlockLatest
    \/ ExecutionLockIopubInput
    \/ \E sent \in BOOLEAN : ExecutionSendInput(sent)
    \/ ExecutionSpawnBlocking
    \/ \E empty \in BOOLEAN : ExecutionAwait(empty)
    \/ ExecutionLockIopubResult
    \/ \E sent \in BOOLEAN : ExecutionSendResult(sent)
    \/ \E sent \in BOOLEAN : ExecutionEmitErrors(sent)
    \/ \E id \in Range(RequestIds) : BlockingLockContext(id)
    \/ \E id \in Range(RequestIds) : BlockingInputRefused(id)
    \/ \E id \in Range(RequestIds) : BlockingLockStdin(id)
    \/ \E id \in Range(RequestIds) : BlockingUnlockStdin(id)
    \/ \E id \in Range(RequestIds) : BlockingReturn(id)
    \/ ShellRead
    \/ ShellLockIopub
    \/ \E sent \in BOOLEAN : ShellSendBusy(sent)
    \/ ControlLockShutdown
    \/ ControlTakeSender

JupyterSpec == JupyterInit /\ [][JupyterNext]_vars

\* ------------------------------------------------- CommandContext's commands

MaxCommands == 2

\* The kind of the segment of a command line: what COMMAND_RE captures of it,
\* with the line it stands on.
CommandKind(command, args, line_number) ==
    CommandCall([command |-> command, args |-> args], 0, line_number)

\* The names of the table commands_by_name builds from create_commands, with
\* :dep of the commands that follow :clear.
CommandNames ==
    {":internal_debug", ":load_config", ":version", ":vars",
     ":preserve_vars_on_panic", ":clear", ":dep"}

\* The commands a submission is made of here: :vars, which only reads the
\* context, one that changes the configuration of the working state, :dep,
\* :load_config, and a name that is only the beginning of a name of the table.
SubmittedCommands ==
    {<<":vars", "">>, <<":preserve_vars_on_panic", "0">>,
     <<":dep", "tokio">>, <<":load_config", "">>, <<":vers", "">>}

\* The contents of init.evcxr when load_config reads it: no file, one line,
\* or a line that executes followed by one that does not.
ConfigFiles ==
    {<<>>,
     <<CommandKind(":preserve_vars_on_panic", "0", 1)>>,
     <<CommandKind(":preserve_vars_on_panic", "0", 1), CommandKind(":vers", "", 1)>>}

\* The sequences over `set` of at most n elements.
SeqsUpTo(set, n) == UNION {[1..k -> set] : k \in 0..n}

\* The segments from_original_user_code makes of a submission: one segment
\* for each command line, then the code, if there is any, as one segment.
Submission(lines, code) ==
    [i \in 1..Len(lines) |->
        [kind |-> CommandKind(lines[i][1], lines[i][2], i)]]
    \o (IF code
        THEN <<[kind |-> [tag |-> "OriginalUserCode", start_byte |-> 0,
                          start_line |-> Len(lines) + 1]]>>
        ELSE <<>>)

Submissions ==
    {Submission(lines, code) :
        lines \in SeqsUpTo(SubmittedCommands, MaxCommands), code \in BOOLEAN}

\* struct EvalOutputs, as the mime types content_by_mime_type has content for.
EvalOutputsNew == {}

\* EvalOutputs::text_html
TextHtml == {"text/plain", "text/html"}

\* text_output, what the callbacks that print one line return.
TextOutput == {"text/plain"}

\* EvalOutputs::merge
Merge(outputs, other) == outputs \cup other

\* The callback of :dep: the dependency is added to the working state.
DepCommand(st, args) ==
    [st EXCEPT !.external_deps = AddDep(@, args, "1")]

RECURSIVE LoadConfig(_, _)
RECURSIVE ProcessCommand(_, _, _, _, _)

\* CommandContext::load_config: each line of init.evcxr is executed on its
\* own, from the committed state and committing what it did; the first line
\* that fails ends the loading with its error.  The lines are commands, so
\* eval_with_callbacks commits at once.
LoadConfig(lines, committed) ==
    IF lines = <<>>
    THEN [ok |-> TRUE, committed |-> committed, outputs |-> EvalOutputsNew]
    ELSE LET r == ProcessCommand(Head(lines), committed, committed, FALSE, <<>>)
             rest == LoadConfig(Tail(lines), CommitState(r.state))
         IN IF r.ok
            THEN [rest EXCEPT !.outputs = Merge(r.outputs, @)]
            ELSE [ok |-> FALSE, committed |-> r.committed,
                  outputs |-> EvalOutputsNew]

\* CommandContext::process_command with the callbacks of create_commands:
\* whether the command was found and its callback returned Ok, the working
\* state and the committed state afterwards, and the outputs returned.
\* :load_config is disabled in analysis mode; outside it the working state
\* becomes the committed one whatever load_config returned.
ProcessCommand(call, st, committed, analysis_mode, config) ==
    IF call.command \notin CommandNames
    THEN [ok |-> FALSE, state |-> st, committed |-> committed,
          outputs |-> EvalOutputsNew]
    ELSE IF call.command = ":load_config"
    THEN IF analysis_mode
         THEN [ok |-> TRUE, state |-> st, committed |-> committed,
               outputs |-> EvalOutputsNew]
         ELSE LET r == LoadConfig(config, committed)
              IN [ok |-> r.ok, state |-> r.committed, committed |-> r.committed,
                  outputs |-> r.outputs]
    ELSE IF call.command = ":preserve_vars_on_panic"
    THEN [ok |-> TRUE,
          state |-> [st EXCEPT !.config.preserve_vars_on_panic = (call.args = "1")],
          committed |-> committed, outputs |-> TextOutput]
    ELSE IF call.command = ":dep"
    THEN [ok |-> TRUE, state |-> DepCommand(st, call.args),
          committed |-> committed, outputs |-> EvalOutputsNew]
    ELSE IF call.command = ":vars"
    THEN [ok |-> TRUE, state |-> st, committed |-> committed, outputs |-> TextHtml]
    ELSE [ok |-> TRUE, state |-> st, committed |-> committed,
          outputs |-> EvalOutputsNew]

\* What is recorded about a call of execute, check or completions: which of
\* them it is, the committed state when it began, the kinds of the command
\* segments handed to process_command, the segments kept as code, the index
\* of the segment whose command failed in execute (0 while none has), and
\* whether the code reached eval_with_callbacks.
CommandHistory(mode, pre) ==
    [mode |-> mode, pre |-> pre, run |-> <<>>, non_command_code |-> <<>>,
     failed |-> 0, handlers |-> pre, evaluated |-> FALSE]

\* A CommandContext whose committed state holds a variable, about to run
\* execute, check or completions on a submission.
CommandInit ==
    /\ pc = "commands"
    /\ committed_state =
           CommitState([ContextStateNew(InitialConfig) EXCEPT
               !.variable_states = [n \in {"a"} |->
                   VariableState("i32", FALSE, "Available", FALSE)],
               !.build_num = 1])
    /\ state = committed_state
    /\ child_process = [running |-> TRUE, stdin |-> <<>>]
    /\ user_code \in Submissions
    /\ nlines = 1
    /\ errors = <<>>
    /\ result = [kind |-> "None", errors |-> <<>>, outputs |-> EvalOutputsNew]
    /\ \E mode \in {"execute", "check", "completions"} :
           history = CommandHistory(mode, committed_state)
    /\ remaining_retries = RETRIES
    /\ got_panic = FALSE
    /\ lost_variables = <<>>

\* The loop of execute_with_callbacks_internal is at a segment of kind
\* Command.
AtCommand(mode) ==
    /\ pc = "commands"
    /\ history.mode \in mode
    /\ nlines <= Len(user_code)
    /\ user_code[nlines].kind.tag = "Command"

\* The Command arm with the error of execute_command dropped, so that the
\* loop goes on to the next segment.
ExecuteCommandGoesOn(config) ==
    /\ AtCommand({"execute"})
    /\ LET segment == user_code[nlines]
           r == ProcessCommand(segment.kind, state, committed_state, FALSE, config)
       IN /\ state' = r.state
          /\ committed_state' = r.committed
          /\ history' = [history EXCEPT
                 !.run = Append(@, segment.kind),
                 !.handlers = r.committed,
                 !.failed = IF r.ok THEN 0 ELSE nlines]
          /\ nlines' = nlines + 1
          /\ result' = [result EXCEPT !.outputs = Merge(@, r.outputs)]
          /\ UNCHANGED pc
    /\ UNCHANGED <<child_process, user_code, remaining_retries, errors, got_panic,
                   lost_variables>>

\* The Command arm of the loop of execute_with_callbacks_internal, with
\* execute_command: Ok goes on to the next segment, an error returns
\* CompilationErrors holding the one error process_command made from the
\* segment.
ExecuteCommand(config) ==
    /\ AtCommand({"execute"})
    /\ LET segment == user_code[nlines]
           r == ProcessCommand(segment.kind, state, committed_state, FALSE, config)
       IN /\ state' = r.state
          /\ committed_state' = r.committed
          /\ history' = [history EXCEPT
                 !.run = Append(@, segment.kind),
                 !.handlers = r.committed,
                 !.failed = IF r.ok THEN 0 ELSE nlines]
          /\ IF r.ok
             THEN /\ nlines' = nlines + 1
                  /\ result' = [result EXCEPT !.outputs = Merge(@, r.outputs)]
                  /\ UNCHANGED pc
             ELSE /\ pc' = "done"
                  /\ result' = [kind |-> "CompilationErrors",
                                errors |-> <<FromSegmentSpan(segment.kind)>>,
                                outputs |-> EvalOutputsNew]
                  /\ UNCHANGED nlines
    /\ UNCHANGED <<child_process, user_code, remaining_retries, errors, got_panic,
                   lost_variables>>

\* The Command arm of prepare_for_analysis with process_command called as
\* execute calls it, not in analysis mode.
AnalysisCommandRunsCallback(config) ==
    /\ AtCommand({"check", "completions"})
    /\ LET segment == user_code[nlines]
           r == ProcessCommand(segment.kind, state, committed_state, FALSE, config)
       IN /\ state' = r.state
          /\ committed_state' = r.committed
          /\ history' = [history EXCEPT !.run = Append(@, segment.kind)]
          /\ errors' = IF r.ok THEN errors
                       ELSE Append(errors, FromSegmentSpan(segment.kind))
    /\ nlines' = nlines + 1
    /\ UNCHANGED <<child_process, pc, user_code, remaining_retries, got_panic,
                   lost_variables, result>>

\* The Command arm of the loop of prepare_for_analysis: process_command in
\* analysis mode, its error pushed and the loop going on.
AnalysisCommand(config) ==
    /\ AtCommand({"check", "completions"})
    /\ LET segment == user_code[nlines]
           r == ProcessCommand(segment.kind, state, committed_state, TRUE, config)
       IN /\ state' = r.state
          /\ committed_state' = r.committed
          /\ history' = [history EXCEPT !.run = Append(@, segment.kind)]
          /\ errors' = IF r.ok THEN errors
                       ELSE Append(errors, FromSegmentSpan(segment.kind))
    /\ nlines' = nlines + 1
    /\ UNCHANGED <<child_process, pc, user_code, remaining_retries, got_panic,
                   lost_variables, result>>

\* The other arm of both loops: the segment is added to non_command_code.
WithSegment ==
    /\ pc = "commands"
    /\ nlines <= Len(user_code)
    /\ user_code[nlines].kind.tag # "Command"
    /\ history' = [history EXCEPT
           !.non_command_code = Append(@, user_code[nlines])]
    /\ nlines' = nlines + 1
    /\ UNCHANGED <<committed_state, child_process, pc, state, user_code,
                   remaining_retries, errors, got_panic, lost_variables, result>>

\* eval_with_callbacks without its early return: whatever it is handed is
\* built.
ExecuteEvalAlwaysBuilds(ok) ==
    /\ pc = "commands"
    /\ history.mode = "execute"
    /\ nlines > Len(user_code)
    /\ pc' = "done"
    /\ history' = [history EXCEPT !.evaluated = TRUE]
    /\ IF ok
       THEN /\ child_process' =
                   [child_process EXCEPT !.stdin = Append(@, LoadAndRun)]
            /\ committed_state' = CommitState(state)
            /\ result' = [kind |-> "Ok", errors |-> <<>>,
                                  outputs |-> Merge(result.outputs, EvalOutputsNew)]
       ELSE /\ result' =
                   [kind |-> "CompilationErrors",
                    errors |-> <<CompilationError("E0425",
                                     <<OriginalUserCode>>, FALSE)>>,
                            outputs |-> EvalOutputsNew]
            /\ UNCHANGED <<committed_state, child_process>>
    /\ UNCHANGED <<state, user_code, remaining_retries, errors, got_panic,
                   lost_variables, nlines>>

\* The end of execute_with_callbacks_internal: eval_with_callbacks is handed
\* the code and the working state.  With no code and no change that can fail
\* compilation it commits and returns; otherwise the code is built, and
\* either the build fails with errors or LOAD_AND_RUN is sent and the working
\* state committed.
ExecuteEval(ok) ==
    /\ pc = "commands"
    /\ history.mode = "execute"
    /\ nlines > Len(user_code)
    /\ pc' = "done"
    /\ IF /\ history.non_command_code = <<>>
          /\ ~StateChangeCanFailCompilation(committed_state, state)
       THEN /\ committed_state' = CommitState(state)
            /\ result' = [kind |-> "Ok", errors |-> <<>>,
                          outputs |-> Merge(result.outputs, EvalOutputsNew)]
            /\ UNCHANGED <<child_process, history>>
       ELSE /\ history' = [history EXCEPT !.evaluated = TRUE]
            /\ IF ok
               THEN /\ child_process' =
                           [child_process EXCEPT !.stdin = Append(@, LoadAndRun)]
                    /\ committed_state' = CommitState(state)
                    /\ result' = [kind |-> "Ok", errors |-> <<>>,
                                  outputs |-> Merge(result.outputs, EvalOutputsNew)]
               ELSE /\ result' =
                           [kind |-> "CompilationErrors",
                            errors |-> <<CompilationError("E0425",
                                             <<OriginalUserCode>>, FALSE)>>,
                            outputs |-> EvalOutputsNew]
                    /\ UNCHANGED <<committed_state, child_process>>
    /\ UNCHANGED <<state, user_code, remaining_retries, errors, got_panic,
                   lost_variables, nlines>>

\* The end of CommandContext::check: write_cargo_toml may fail; the errors of
\* the commands are returned if there are any, and otherwise what
\* EvalContext::check finds in the code, built for checking from its own
\* copy of the state.
Check(toml_ok, found) ==
    /\ pc = "commands"
    /\ history.mode = "check"
    /\ nlines > Len(user_code)
    /\ pc' = "done"
    /\ result' =
           IF ~toml_ok
           THEN [kind |-> "Other", errors |-> <<>>, outputs |-> EvalOutputsNew]
           ELSE IF errors # <<>>
           THEN [kind |-> "Ok", errors |-> errors, outputs |-> EvalOutputsNew]
           ELSE IF found /\ history.non_command_code # <<>>
           THEN [kind |-> "Ok",
                 errors |-> <<CompilationError("E0425", <<OriginalUserCode>>, FALSE)>>,
                 outputs |-> EvalOutputsNew]
           ELSE [kind |-> "Ok", errors |-> <<>>, outputs |-> EvalOutputsNew]
    /\ history' = [history EXCEPT !.evaluated = toml_ok /\ errors = <<>>]
    /\ UNCHANGED <<committed_state, child_process, state, user_code,
                   remaining_retries, errors, got_panic, lost_variables, nlines>>

\* CommandContext::completions when the position lies in a command:
\* command_completions answers from the names of the table.
CommandCompletions ==
    /\ AtCommand({"completions"})
    /\ nlines = 1
    /\ pc' = "done"
    /\ result' = [kind |-> "Completions", errors |-> <<>>,
                  outputs |-> EvalOutputsNew]
    /\ UNCHANGED <<committed_state, child_process, state, user_code,
                   remaining_retries, errors, got_panic, lost_variables, nlines,
                   history>>

\* The end of CommandContext::completions: the errors of the commands are
\* dropped, and EvalContext::completions asks the analyzer about the code
\* built from its own copy of the state; write_cargo_toml, apply or the
\* analyzer may fail.
Completions(ok) ==
    /\ pc = "commands"
    /\ history.mode = "completions"
    /\ nlines > Len(user_code)
    /\ pc' = "done"
    /\ result' = [kind |-> IF ok THEN "Completions" ELSE "Other", errors |-> <<>>,
                  outputs |-> EvalOutputsNew]
    /\ history' = [history EXCEPT !.evaluated = TRUE]
    /\ UNCHANGED <<committed_state, child_process, state, user_code,
                   remaining_retries, errors, got_panic, lost_variables, nlines>>

CommandNext ==
    \/ \E config \in ConfigFiles : ExecuteCommand(config)
    \/ \E config \in ConfigFiles : AnalysisCommand(config)
    \/ WithSegment
    \/ \E ok \in BOOLEAN : ExecuteEval(ok)
    \/ \E toml_ok \in BOOLEAN, found \in BOOLEAN : Check(toml_ok, found)
    \/ CommandCompletions
    \/ \E ok \in BOOLEAN : Completions(ok)

CommandSpec == CommandInit /\ [][CommandNext]_vars

\* --------------------------------------------------------------- properties

C3_AtMostFiveFixRetries ==
    /\ [](history.fix_passes <= RETRIES)
    /\ [][(pc = "compile" /\ remaining_retries <= 0) =>
              (~history'.fixers_called /\ pc' \notin {"compile", "panicked"})]_vars

\* The budget is 0, the build failed on the segment that still has its
\* fallback, and no fixer ran: the recompile without catch_unwind is next.
C3_FixableErrorAtBudgetZero ==
    /\ pc = "nocatch"
    /\ remaining_retries = 0
    /\ user_code.fallback
    /\ ~history.fixers_called
    /\ \E i \in 1..Len(errors) : errors[i].code_origins = <<WithFallback>>

\* C4: the retries of one evaluation, those after lost variables included,
\* stay within the budget of 5: the budget is never overdrawn, so the number
\* of compile-and-run attempts is bounded whatever the worker reports.
C4_RetriesWithinBudget == remaining_retries >= 0

\* C5, as claimed: when an unfixed compile failure is followed by the
\* recompile without catch_unwind, run_statements returns the error list of
\* the failed panic-catching build, whether the recompile fails or succeeds.
C5_OriginalErrorsReturned ==
    (pc = "done" /\ result.kind = "CompilationErrors"
        /\ history.nocatch \in {"ok", "failed"}) =>
        history.returned = history.catch_errors

\* C5, amended: when the recompile fails with compilation errors,
\* run_statements returns the recompile's error list; it returns the list of
\* the failed panic-catching build only when the recompile unexpectedly
\* succeeds; when the recompile fails otherwise, that error is returned.
C5_RecompileErrorsReturned ==
    pc = "done" =>
        /\ history.nocatch = "failed" =>
               /\ result.kind = "CompilationErrors"
               /\ history.returned = history.nocatch_errors
        /\ history.nocatch = "ok" =>
               /\ result.kind = "CompilationErrors"
               /\ history.returned = history.catch_errors
        /\ history.nocatch = "other" => result.kind = "Other"

\* The recompile failed with a list that differs from the first one, and
\* that list was returned.
C5_RecompileFailedDifferently ==
    /\ pc = "done"
    /\ history.nocatch = "failed"
    /\ history.returned = history.nocatch_errors
    /\ history.returned # history.catch_errors

\* C6: commit_state is idempotent: committing the state that a commit has
\* just produced leaves variable_states and stored_variable_states as the
\* first commit left them.
C6_CommitStateIdempotent ==
    (pc = "done" /\ result.kind = "Ok") =>
        /\ CommitState(committed_state).variable_states =
               committed_state.variable_states
        /\ CommitState(committed_state).stored_variable_states =
               committed_state.stored_variable_states

\* A commit that cleared the definition span of a variable it stored.
C6_CommittedNewVariable ==
    /\ pc = "done"
    /\ result.kind = "Ok"
    /\ \E n \in DOMAIN committed_state.stored_variable_states :
          /\ n \in DOMAIN history.exec_vars
          /\ history.exec_vars[n].definition_span

\* C7, as claimed: in the committed state and in the working copy alike, the
\* names of stored_variable_states are names of variable_states.
C7_StoredNamesAreVariableNames ==
    /\ DOMAIN committed_state.stored_variable_states
           \subseteq DOMAIN committed_state.variable_states
    /\ DOMAIN state.stored_variable_states \subseteq DOMAIN state.variable_states

\* C7, amended: in the committed state the names of stored_variable_states
\* are names of variable_states, in every reachable state.  (The working
\* copy is not covered: a fixer removes a moved variable from its
\* variable_states alone.)
C7_CommittedStoredNamesAreVariableNames ==
    DOMAIN committed_state.stored_variable_states
        \subseteq DOMAIN committed_state.variable_states

\* A retry is about to build from a working copy whose stored variable is no
\* longer among its variables, while the committed state holds both.
C7_WorkingCopyAfterFixer ==
    /\ pc = "compile"
    /\ committed_state.stored_variable_states # EmptyMap
    /\ ~(DOMAIN state.stored_variable_states
            \subseteq DOMAIN state.variable_states)

\* C8: when an execution reports a panic and then completes, the committed
\* state holds every variable that was Available in the working state when
\* the execution began and none that was New.
C8_PanicDropsOnlyNewVariables ==
    (pc = "done" /\ result.kind = "Ok" /\ history.panicked) =>
        \A n \in DOMAIN history.exec_vars :
            /\ history.exec_vars[n].move_state = "Available" =>
                   /\ n \in DOMAIN committed_state.variable_states
                   /\ n \in DOMAIN committed_state.stored_variable_states
            /\ history.exec_vars[n].move_state = "New" =>
                   /\ n \notin DOMAIN committed_state.variable_states
                   /\ n \notin DOMAIN committed_state.stored_variable_states

\* A panicking execution that began with a stored variable and a new one.
C8_PanicWithNewAndAvailable ==
    /\ pc = "done"
    /\ result.kind = "Ok"
    /\ history.panicked
    /\ \E n \in DOMAIN history.exec_vars : history.exec_vars[n].move_state = "New"
    /\ \E n \in DOMAIN history.exec_vars :
          history.exec_vars[n].move_state = "Available"

\* C9, as claimed: when the worker is found terminated, it is restarted, the
\* committed variable maps are empty and SubprocessTerminated is returned.
C9_TerminationReturnsSubprocessTerminated ==
    (pc = "done" /\ history.terminated) =>
        /\ child_process.running
        /\ committed_state.variable_states = EmptyMap
        /\ committed_state.stored_variable_states = EmptyMap
        /\ result.kind = "SubprocessTerminated"

\* C9, amended: when the worker is found terminated, the committed variable
\* maps are empty afterwards; if the restart succeeds, SubprocessTerminated
\* is returned and a worker runs for the next evaluation; if the restart
\* fails, its error is returned instead and no worker runs.
C9_TerminationClearsAndRestarts ==
    /\ (pc = "done" /\ history.terminated) =>
           /\ committed_state.variable_states = EmptyMap
           /\ committed_state.stored_variable_states = EmptyMap
           /\ result.kind = IF child_process.running
                            THEN "SubprocessTerminated" ELSE "Other"
    /\ (pc = "done" /\ result.kind = "SubprocessTerminated") =>
           history.terminated /\ child_process.running

\* SubprocessTerminated returned by an evaluation that began with stored
\* variables, with a worker running again.
C9_TerminatedWithStoredVariables ==
    /\ pc = "done"
    /\ result.kind = "SubprocessTerminated"
    /\ child_process.running
    /\ history.pre.stored_variable_states # EmptyMap

\* C10: when the error list of a failed evaluation holds an error from user
\* code, the caller gets exactly its errors from user code, in order; when
\* it holds none, the caller gets the whole list.
C10_OnlyUserErrorsReturned ==
    (pc = "done" /\ result.kind = "CompilationErrors") =>
        IF \E i \in 1..Len(history.customized) :
               IsFromUserCode(history.customized[i])
        THEN /\ \A i \in 1..Len(result.errors) : IsFromUserCode(result.errors[i])
             /\ Len(result.errors) =
                    Cardinality({i \in 1..Len(history.customized) :
                                    IsFromUserCode(history.customized[i])})
             /\ \A i \in 1..Len(history.customized) :
                    IsFromUserCode(history.customized[i]) =>
                        history.customized[i] \in Range(result.errors)
        ELSE result.errors = history.customized

\* A list with an error from user code and one from generated code, of
\* which the caller got the first alone.
C10_GeneratedErrorSuppressed ==
    /\ pc = "done"
    /\ result.kind = "CompilationErrors"
    /\ \E i \in 1..Len(history.customized) : IsFromUserCode(history.customized[i])
    /\ \E i \in 1..Len(history.customized) : ~IsFromUserCode(history.customized[i])
    /\ Len(result.errors) < Len(history.customized)

\* C11, as claimed: a failed build that reports a variable as moved (E0382 or
\* E0425 on its pack segment) is never left unfixed for the recompile that
\* ends the retry loop.
C11_MovedVariableAlwaysRemoved ==
    (pc = "nocatch") => MovedNames(history.catch_errors) = {}

\* C11, amended: when a failed build reports variables as moved and the
\* retry budget is above 0, the pass of the fixers either ends the
\* evaluation (a fixer returns an error, or the lookup of a variable the pass
\* has already removed panics) or removes exactly those variables from the
\* working variable_states and builds again within the same evaluation; the
\* committed state is left alone in each case; no later step of the
\* evaluation adds a variable to the working state, and a commit stores only
\* variables of the working state, so no variable so removed is committed.
C11_MovedVariableRemovedWithinBudget ==
    /\ [][(/\ pc = "compile"
           /\ remaining_retries > 0
           /\ MovedNames(history'.catch_errors) # {}) =>
              (/\ committed_state' = committed_state
               /\ \/ pc' = "panicked"
                  \/ pc' = "done" /\ result'.kind = "Other"
                  \/ /\ pc' = "compile"
                     /\ DOMAIN state'.variable_states =
                            DOMAIN state.variable_states
                                \ MovedNames(history'.catch_errors)
                     /\ remaining_retries' = remaining_retries - 1)]_vars
    /\ [][(pc \in {"compile", "nocatch", "exec"} /\ pc' \in {"compile", "nocatch", "exec"}) =>
              DOMAIN state'.variable_states \subseteq DOMAIN state.variable_states]_vars
    /\ [][(pc \in {"compile", "nocatch", "exec"} /\ pc' = "done" /\ result'.kind = "Ok") =>
              DOMAIN committed_state'.variable_states
                  \subseteq DOMAIN state.variable_states]_vars

\* A commit after a retry that removed one of two variables, with no
\* variable lost and no panic in the execution: the other one is committed.
C11_CommittedWithoutMovedVariable ==
    /\ pc = "done"
    /\ result.kind = "Ok"
    /\ history.fix_passes > 0
    /\ history.lost = {}
    /\ ~history.panicked
    /\ DOMAIN history.pre.variable_states
           \ DOMAIN committed_state.variable_states # {}
    /\ committed_state.variable_states # EmptyMap

IsCommentLine(line) ==
    LET p == Find(line, 1, FALSE)
    IN p < Len(line) /\ line[p] = "/" /\ line[p + 1] = "/"

\* The lines of the raw input that precede its first line of code, a line of
\* code being one that is neither a command, nor blank, nor a comment: a
\* line that starts with two slashes, after its indentation when `indented`.
LinesBeforeCode(lines, indented) ==
    {k \in 1..Len(lines) :
        \A j \in 1..k :
            LET p == Find(lines[j].line, 1, FALSE)
            IN \/ p > Len(lines[j].line)
               \/ lines[j].line[p] = ":"
               \/ IF indented THEN IsCommentLine(lines[j].line)
                  ELSE StartsWithSlashes(lines[j].line)}

\* The lines that are commands.
CommandLines(lines) ==
    {k \in 1..Len(lines) :
        LET p == Find(lines[k].line, 1, FALSE)
        IN p <= Len(lines[k].line) /\ lines[k].line[p] = ":"}

RECURSIVE JoinLines(_, _, _)
\* The lines of `keep` from line k on, each followed by a line feed.
JoinLines(lines, keep, k) ==
    IF k > Len(lines) THEN <<>>
    ELSE (IF k \in keep THEN lines[k].line \o <<"\n">> ELSE <<>>)
             \o JoinLines(lines, keep, k + 1)

\* C13, as claimed: the texts of the segments, concatenated in their order,
\* are the raw input, byte for byte.
C13_SegmentsReproduceInput ==
    pc = "split_done" => Concat(result.segments) = user_code

\* C13, amended: the texts of the segments, concatenated in their order, are
\* the lines of the raw input in their order, each followed by one line feed,
\* without the blank lines and the lines starting with // that precede the
\* first line of code; an input without such lines that ends with a line
\* feed is reproduced byte for byte.
C13_SegmentsReproduceKeptLines ==
    pc = "split_done" =>
        LET lines == Lines(user_code)
            before == LinesBeforeCode(lines, FALSE)
            keep == (1..Len(lines)) \ (before \ CommandLines(lines))
        IN /\ Concat(result.segments) = JoinLines(lines, keep, 1)
           /\ (/\ before \subseteq CommandLines(lines)
               /\ user_code # <<>>
               /\ user_code[Len(user_code)] = "\n") =>
                  Concat(result.segments) = user_code

\* A command after a blank line and before code, the code without a final
\* line feed: the blank line is dropped and a line feed is added.
C13_BlankLineDroppedAndLineFeedAdded ==
    /\ pc = "split_done"
    /\ user_code = <<"\n", ":", "\n", "d">>
    /\ Concat(result.segments) = <<":", "\n", "d", "\n">>

\* The command segments of a code block.
CommandSegments(segments) ==
    {i \in 1..Len(segments) : segments[i].kind.tag = "Command"}

\* C14, as claimed: the command segments are the command lines that precede
\* the first line that is neither a command, nor blank, nor a // comment,
\* each with its 1-based line number and the byte offset of its line.
C14_CommandsBeforeFirstCodeLine ==
    pc = "split_done" =>
        LET lines == Lines(user_code)
            segments == result.segments
        IN /\ {segments[i].kind.line_number : i \in CommandSegments(segments)} =
                  LinesBeforeCode(lines, TRUE) \cap CommandLines(lines)
           /\ \A i \in CommandSegments(segments) :
                  segments[i].kind.start_byte =
                      lines[segments[i].kind.line_number].start_byte

\* C14, amended: the command segments are, in their order, the command lines
\* that precede the first line that is neither a command, nor blank, nor a
\* line starting with // in its first column (an indented comment counts as
\* code); each records the 1-based number of its line and the byte offset at
\* which that line begins in the raw input; everything from the first line of
\* code on, lines that look like commands included, is user code.
C14_CommandsBeforeFirstUnskippedLine ==
    pc = "split_done" =>
        LET lines == Lines(user_code)
            segments == result.segments
            before == LinesBeforeCode(lines, FALSE)
            cmds == CommandSegments(segments)
        IN /\ {segments[i].kind.line_number : i \in cmds} =
                  before \cap CommandLines(lines)
           /\ \A i, j \in cmds :
                  i < j => segments[i].kind.line_number < segments[j].kind.line_number
           /\ \A i \in cmds :
                  LET line == lines[segments[i].kind.line_number].line
                      b == segments[i].kind.start_byte
                  IN /\ SubSeq(user_code, b + 1, b + Len(line)) = line
                     /\ (b = 0 \/ user_code[b] = "\n")
                     /\ segments[i].code = line \o <<"\n">>
                     /\ Head(segments[i].kind.command) = ":"
           /\ \A i \in (1..Len(segments)) \ cmds :
                  /\ segments[i].kind.tag = "OriginalUserCode"
                  /\ \A j \in cmds : j < i
                  /\ segments[i].kind.start_line = Cardinality(before) + 1
           /\ (Cardinality(before) < Len(lines)) =>
                  LET rest == SubSeq(user_code,
                                     lines[Cardinality(before) + 1].start_byte + 1,
                                     Len(user_code))
                  IN Concat([i \in 1..(Len(segments) - Cardinality(cmds)) |->
                                segments[i + Cardinality(cmds)]])
                         \in {rest, rest \o <<"\n">>}

\* A command, a line of code, then a line that looks like a command: the last
\* line is part of the user code.
C14_CommandAfterCodeIsCode ==
    /\ pc = "split_done"
    /\ user_code = <<":", "\n", "d", "\n", ":">>
    /\ Len(result.segments) = 2
    /\ result.segments[1].kind.tag = "Command"
    /\ result.segments[2].code = <<"d", "\n", ":", "\n">>

\* C15, as claimed: after clear() the committed state is empty and a worker
\* runs.
C15_ClearEmptiesAndRestarts ==
    (pc = "idle" /\ result.kind \in {"Cleared", "ClearFailed"}) =>
        /\ committed_state = ContextStateNew(committed_state.config)
        /\ child_process.running

\* C15, amended: clear() replaces the committed state by one without
\* variables, stored variables, items and dependencies, with async_mode and
\* allow_question_mark false and the build counter 0, whose configuration is
\* the one before the clear, and then tries to restart the worker: clear()
\* returns Ok with a worker running, or the error of the restart with none.
C15_ClearEmptiesAndTriesRestart ==
    [][ClearStep =>
          /\ committed_state'.variable_states = EmptyMap
          /\ committed_state'.stored_variable_states = EmptyMap
          /\ committed_state'.items_by_name = EmptyMap
          /\ committed_state'.external_deps = EmptyMap
          /\ ~committed_state'.async_mode
          /\ ~committed_state'.allow_question_mark
          /\ committed_state'.build_num = 0
          /\ committed_state'.config = committed_state.config
          /\ result'.kind = IF child_process'.running
                            THEN "Cleared" ELSE "ClearFailed"]_vars

\* A clear of a context whose configuration is not the initial one, with the
\* worker restarted.
C15_ClearedWithChangedConfig ==
    /\ pc = "idle"
    /\ result.kind = "Cleared"
    /\ committed_state.config # InitialConfig
    /\ committed_state.build_num = 0
    /\ child_process.running

\* C16: no step other than a clear removes a name from the committed items,
\* and a successful evaluation commits the names it began with together with
\* the ones its code defines.
C16_ItemNamesOnlyGrow ==
    /\ [][~ClearStep =>
             DOMAIN committed_state.items_by_name
                 \subseteq DOMAIN committed_state'.items_by_name]_vars
    /\ []((pc = "done" /\ result.kind = "Ok") =>
             /\ DOMAIN history.pre.items_by_name
                    \subseteq DOMAIN committed_state.items_by_name
             /\ DOMAIN committed_state.items_by_name \subseteq ItemNames)

\* A second item committed next to the one an earlier evaluation defined.
C16_SecondItemCommitted ==
    /\ pc = "done"
    /\ result.kind = "Ok"
    /\ DOMAIN history.pre.items_by_name # {}
    /\ DOMAIN committed_state.items_by_name = ItemNames
    /\ DOMAIN history.pre.items_by_name # ItemNames

C18_PanicNotificationEndsReading ==
    pc = "exec" => ~got_panic

\* C18, amended: a panic notification does not end the execution: the core
\* notes it and reads on, with nothing committed or returned; the reading
\* ends only with the execution-complete line, which the worker emits once
\* after the user function has returned, also after a caught panic, or with
\* the failure to read from a terminated worker.
C18_OnlyExecutionCompleteEndsReading ==
    [][/\ (pc = "exec" /\ got_panic' /\ ~got_panic) =>
              (/\ pc' = "exec"
               /\ committed_state' = committed_state
               /\ result' = result)
       /\ (pc = "exec" /\ got_panic /\ pc' # "exec") =>
              (/\ pc' = "done"
               /\ ~got_panic'
               /\ \/ history'.terminated
                  \/ result'.kind = "Ok" /\ history'.panicked)
       /\ (pc = "exec" /\ pc' = "exec") => nlines' = nlines + 1]_vars

\* An execution has completed after a panic notification.
C18_CompletedAfterPanicNotification ==
    /\ pc = "done"
    /\ result.kind = "Ok"
    /\ history.panicked
    /\ ~history.terminated
    /\ history.exec_vars # EmptyMap

C20_OtherErrorEndsSubmission ==
    /\ [][(/\ pc = "compile"
           /\ remaining_retries > 0
           /\ history'.catch_errors # <<>>
           /\ HardFails(history'.catch_errors[1], state)) =>
              (/\ pc' = "done"
               /\ result'.kind = "Other"
               /\ committed_state' = committed_state
               /\ history'.nocatch = "none"
               /\ history'.fix_passes = history.fix_passes)]_vars
    /\ [][(/\ pc \in {"compile", "exec", "nocatch"}
           /\ pc' = "done"
           /\ result'.kind \in {"Other", "SubprocessTerminated"}) =>
              (/\ committed_state' =
                     IF history'.terminated THEN ClearVariables(committed_state)
                     ELSE committed_state
               /\ history'.nocatch \in {"none", "other"}
               /\ (history'.nocatch = "other") => pc = "nocatch")]_vars

\* A fixer has hard-failed on the error of a failed build after an earlier
\* pass had changed the working state: the evaluation has ended and the
\* committed variables are still there.
C20_FixerHardFailedAfterFix ==
    /\ pc = "done"
    /\ result.kind = "Other"
    /\ history.fixers_called
    /\ history.catch_errors # <<>>
    /\ history.fix_passes > 0
    /\ history.nocatch = "none"
    /\ committed_state.variable_states # EmptyMap
    /\ committed_state = history.pre

\* C21, as claimed: a failed build that reports an error on a segment with a
\* fallback is never left unfixed for the recompile that ends the retry loop.
C21_FallbackAlwaysApplied ==
    (pc = "nocatch") => ~HasFallbackError(history.catch_errors)

\* C21, amended: when a failed build reports an error on a segment with a
\* fallback and the retry budget is above 0, the pass of the fixers either
\* ends the evaluation (another fixer of the pass returns an error or panics)
\* or replaces the segment by its fallback and builds again within the same
\* evaluation, with one retry spent; the committed state is left alone in
\* each case; no later step of the evaluation brings the segment back, and a
\* build of the retry loop reports such an error only while the fallback has
\* not been applied, so that no segment is fixed this way twice.
C21_FallbackAppliedWithinBudget ==
    /\ [][(/\ pc = "compile"
           /\ remaining_retries > 0
           /\ HasFallbackError(history'.catch_errors)) =>
              (/\ committed_state' = committed_state
               /\ \/ pc' = "panicked"
                  \/ pc' = "done" /\ result'.kind = "Other"
                  \/ /\ pc' = "compile"
                     /\ user_code.fallback
                     /\ ~user_code'.fallback
                     /\ remaining_retries' = remaining_retries - 1
                     /\ history'.fix_passes = history.fix_passes + 1)]_vars
    /\ [][(/\ pc \in {"compile", "nocatch", "exec"}
           /\ pc' \in {"compile", "nocatch", "exec"}
           /\ ~user_code.fallback) => ~user_code'.fallback]_vars
    /\ [][(pc = "compile" /\ HasFallbackError(history'.catch_errors)) =>
              user_code.fallback]_vars

\* The fallback has replaced its segment in an earlier pass and the code
\* built with it is being executed.
C21_ExecutedWithFallback ==
    /\ pc = "exec"
    /\ user_code.rich
    /\ ~user_code.fallback
    /\ history.fix_passes > 0

\* The error list with the message of its k-th error exchanged for one that
\* differs in the let-expression phrase; code and origins are the same.
WithOtherMessage(errs, k) == [errs EXCEPT ![k].let_message = ~@]

\* The error list without its k-th error.
WithoutError(errs, k) ==
    [i \in 1..(Len(errs) - 1) |-> IF i < k THEN errs[i] ELSE errs[i + 1]]

\* The one test of a message in attempt_to_fix_error applies to the error:
\* its code is E0658 and it has an origin in user code.
ReadsMessage(error) ==
    /\ error.code = "E0658"
    /\ \E i \in 1..Len(error.code_origins) :
           error.code_origins[i].kind \in {"OriginalUserCode", "OtherUserCode"}

\* C22, as claimed: whatever list a failed build reports, the same list with
\* another message on one of its errors leads the pass of the fixers to the
\* same outcome and the same working state and user code.
C22_DecisionIgnoresMessages ==
    (pc = "compile") =>
        \A errs \in ErrorLists(state, user_code) :
            \A k \in 1..Len(errs), ok \in BOOLEAN :
                FixPass(WithOtherMessage(errs, k), ok) = FixPass(errs, ok)

\* C22, amended: the outcome of the pass and its state change are the same
\* for two lists that differ in the message of an error, unless that error
\* has code E0658 and an origin in user code; for such an error the message
\* decides: with the let-expression phrase the pass ends without a retry (it
\* hard-fails with the semicolon hint, unless an earlier fixer already ended
\* it), and without the phrase the error leads to no action, as if it were
\* not in the list.
C22_DecisionReadsOnlyLetMessage ==
    (pc = "compile") =>
        \A errs \in ErrorLists(state, user_code) :
            \A k \in 1..Len(errs), ok \in BOOLEAN :
                LET with == [errs EXCEPT ![k].let_message = TRUE]
                    without == [errs EXCEPT ![k].let_message = FALSE]
                IN IF ReadsMessage(errs[k])
                   THEN /\ CanRetry(remaining_retries) =>
                               FixPass(with, ok).out \in {"bail", "panic"}
                        /\ FixPass(without, ok) = FixPass(WithoutError(errs, k), ok)
                   ELSE FixPass(WithOtherMessage(errs, k), ok) = FixPass(errs, ok)

\* The fixers have met an E0658 error in user code whose message has the
\* let-expression phrase: the evaluation has ended with the hint, after no
\* recompile.
C22_HardFailedOnLetMessage ==
    /\ pc = "done"
    /\ result.kind = "Other"
    /\ history.fixers_called
    /\ Len(history.catch_errors) = 1
    /\ ReadsMessage(history.catch_errors[1])
    /\ history.catch_errors[1].let_message
    /\ history.nocatch = "none"

\* C23: the recompile without catch_unwind is entered only from a failed
\* build of the retry loop whose errors no fixer changed anything for (no
\* pass ran because the budget is used up, or the pass fixed nothing), with
\* user code that is not empty, and with the working state, the user code and
\* the budget as they were; a failed build with empty user code returns its
\* errors at once; whatever the recompile's outcome, it is the last step of
\* the evaluation (so there is at most one per submission), nothing is sent
\* to the worker and nothing is committed.
C23_NoCatchRecompileOnceAndNeverRun ==
    /\ [][(pc' = "nocatch" /\ pc # "nocatch") =>
              (/\ pc = "compile"
               /\ history'.catch_errors # <<>>
               /\ errors' = history'.catch_errors
               /\ state' = state
               /\ user_code' = user_code
               /\ remaining_retries' = remaining_retries
               /\ user_code.user \/ user_code.fallback
               /\ \/ remaining_retries <= 0
                  \/ \A ok \in BOOLEAN :
                         FixPass(history'.catch_errors, ok).fixed = {})]_vars
    /\ [][(/\ pc = "compile"
           /\ pc' = "done"
           /\ result'.kind = "CompilationErrors") =>
              ~(user_code.user \/ user_code.fallback)]_vars
    /\ [][(pc = "nocatch") =>
              (/\ pc' = "done"
               /\ result'.kind \in {"CompilationErrors", "Other"}
               /\ child_process' = child_process
               /\ committed_state' = committed_state)]_vars

\* The recompile has succeeded after an earlier pass had applied a fix: the
\* evaluation has ended with the errors of the failed build and the committed
\* state is the one it began with.
C23_RecompileSucceededNothingRun ==
    /\ pc = "done"
    /\ history.nocatch = "ok"
    /\ result.kind = "CompilationErrors"
    /\ history.returned = history.catch_errors
    /\ history.fix_passes > 0
    /\ committed_state = history.pre
    /\ child_process.running

\* C24: when the analyzer reports a closure or an unknown type for a variable
\* of the input, the evaluation ends at once with an error that names such a
\* variable and says which of the two it is; no build is started, nothing is
\* sent to the worker and the committed state is left alone.
C24_UnnameableTypeFailsBeforeBuild ==
    [][(/\ pc = "idle"
        /\ \E n \in DOMAIN history'.analysis : history'.analysis[n] # "Named") =>
           (/\ pc' = "done"
            /\ result'.kind = "Other"
            /\ result'.variable \in DOMAIN history'.analysis
            /\ history'.analysis[result'.variable] \in {"Closure", "Unknown"}
            /\ result'.type_error =
                   (IF history'.analysis[result'.variable] = "Closure"
                    THEN "closure" ELSE "unknown")
            /\ committed_state' = committed_state
            /\ child_process' = child_process)]_vars

\* An evaluation has failed on a closure defined next to a variable with a
\* named type, in a context that has committed variables.
C24_FailedOnClosure ==
    /\ pc = "done"
    /\ result.kind = "Other"
    /\ \E n \in DOMAIN history.analysis : history.analysis[n] = "Closure"
    /\ \E n \in DOMAIN history.analysis : history.analysis[n] = "Named"
    /\ committed_state.variable_states # EmptyMap
    /\ committed_state = history.pre

\* C25, as claimed: an execution in which variable-lost lines were read and
\* which the worker completes ends with the removal of the named variables
\* and another build.
C25_LostLinesAlwaysReturned ==
    [][(/\ pc = "exec"
        /\ lost_variables # <<>>
        /\ pc' # "exec"
        /\ ~history'.terminated) =>
           (/\ pc' = "compile"
            /\ state' = DropLost(state, Range(lost_variables)))]_vars

\* C25, amended: the names of the variable-lost lines are collected in the
\* order read; when the execution completes with names collected and no
\* panic notification read, the controller removes those names from the
\* working and the committed state, spends one retry and builds again; when
\* a panic notification was read, the names are ignored and the evaluation
\* commits as after any panic; when the worker is found terminated, the
\* evaluation ends with that error.
C25_LostLinesReturnedUnlessPanic ==
    /\ [][(pc = "exec" /\ pc' = "exec" /\ lost_variables' # lost_variables) =>
              (/\ \E name \in Names : lost_variables' = Append(lost_variables, name)
               /\ state' = state
               /\ got_panic' = got_panic
               /\ committed_state' = committed_state)]_vars
    /\ [][(pc = "exec" /\ lost_variables # <<>> /\ pc' # "exec") =>
              IF history'.terminated
              THEN /\ pc' = "done"
                   /\ result'.kind \in {"SubprocessTerminated", "Other"}
              ELSE IF got_panic
              THEN /\ pc' = "done"
                   /\ result'.kind = "Ok"
                   /\ committed_state' =
                          CommitState([state EXCEPT
                                          !.variable_states = RetainNotNew(@)])
              ELSE /\ pc' = "compile"
                   /\ state' = DropLost(state, Range(lost_variables))
                   /\ committed_state' =
                          DropLost(committed_state, Range(lost_variables))
                   /\ remaining_retries' = remaining_retries - 1
                   /\ user_code' = user_code]_vars

\* The controller has removed a lost variable that had been committed and is
\* building again with another variable still in the working state.
C25_BuildingAgainWithoutLostVariable ==
    /\ pc = "compile"
    /\ history.lost # {}
    /\ history.lost \subseteq DOMAIN history.pre.variable_states
    /\ history.lost \cap DOMAIN state.variable_states = {}
    /\ history.lost \cap DOMAIN committed_state.variable_states = {}
    /\ state.variable_states # EmptyMap
    /\ remaining_retries = RETRIES - 1

\* C26, as claimed: an execution in which EVCXR_ERROR_OCCURRED removed
\* variables from the working state and which the worker completes ends in a
\* successful evaluation.
C26_UserErrorAlwaysCommits ==
    [][(/\ pc = "exec"
        /\ state.variable_states # history.exec_vars
        /\ pc' # "exec"
        /\ ~history'.terminated) =>
           (pc' = "done" /\ result'.kind = "Ok")]_vars

\* C26, amended: a line read before any panic notification that is neither
\* a panic notification nor a variable-lost line is EVCXR_ERROR_OCCURRED: it
\* removes the New variables from the working variable_states, keeps the
\* others, commits nothing and the reading goes on; when the worker then
\* completes the execution, the evaluation succeeds and commits the working
\* state without the New variables, unless variable-lost lines were read
\* with no panic notification, in which case the controller removes the
\* lost names and builds again.
C26_UserErrorDropsNewThenCommitsUnlessLost ==
    /\ [][(/\ pc = "exec"
           /\ pc' = "exec"
           /\ ~got_panic'
           /\ lost_variables' = lost_variables) =>
              (/\ DOMAIN state'.variable_states =
                      {n \in DOMAIN state.variable_states :
                          state.variable_states[n].move_state # "New"}
               /\ \A n \in DOMAIN state'.variable_states :
                      state'.variable_states[n] = state.variable_states[n]
               /\ committed_state' = committed_state
               /\ result' = result)]_vars
    /\ [][(/\ pc = "exec"
           /\ state.variable_states # history.exec_vars
           /\ pc' # "exec"
           /\ ~history'.terminated) =>
              IF ~got_panic /\ lost_variables # <<>>
              THEN /\ pc' = "compile"
                   /\ state' = DropLost(state, Range(lost_variables))
              ELSE /\ pc' = "done"
                   /\ result'.kind = "Ok"
                   /\ DOMAIN committed_state'.variable_states =
                          {n \in DOMAIN history.exec_vars :
                              history.exec_vars[n].move_state # "New"}]_vars

\* An execution that began with a New and an Available variable has
\* completed after an early return, with no panic: the evaluation has
\* committed the Available one alone.
C26_CommittedAfterEarlyReturn ==
    /\ pc = "done"
    /\ result.kind = "Ok"
    /\ ~history.panicked
    /\ \E n \in DOMAIN history.exec_vars : history.exec_vars[n].move_state = "New"
    /\ committed_state.variable_states # EmptyMap
    /\ DOMAIN committed_state.variable_states =
           {n \in DOMAIN history.exec_vars : history.exec_vars[n].move_state # "New"}

\* The next line of the worker is an input request.
NextIsInputRequest ==
    /\ pc \in {"read", "content"}
    /\ child_process.stdout # <<>>
    /\ StartsWithGetCmd(RecvLine(child_process))

\* The step calls the input callback once, with the request of the line read.
CallsInputReaderOnce ==
    history'.input_reader =
        Append(history.input_reader, InputRequest(RecvLine(child_process)))

\* The step sends one line to the worker, the callback's answer to the line read.
SendsTheAnswer ==
    child_process'.stdin =
        Append(child_process.stdin,
               InputReader(InputRequest(RecvLine(child_process))))

\* C27, as claimed: every input-request line received from the worker makes
\* the core call the input callback once and send its answer as one line
\* before the next line is read, and nothing else is sent to the worker.
C27_EveryRequestAnswered ==
    [][/\ NextIsInputRequest => (CallsInputReaderOnce /\ SendsTheAnswer)
       /\ ~NextIsInputRequest =>
              /\ child_process'.stdin = child_process.stdin
              /\ history'.input_reader = history.input_reader]_vars

\* C27, amended: an input-request line received outside a content block makes
\* the core call the input callback once and then either send its answer as
\* one line and read on, or, when that send fails, send nothing and return
\* the termination of the worker; inside a content block the line is content,
\* and no other step calls the callback or sends anything to the worker.
C27_RequestOutsideBlockAnswered ==
    [][/\ (NextIsInputRequest /\ pc = "read") =>
              /\ CallsInputReaderOnce
              /\ \/ /\ SendsTheAnswer
                    /\ pc' = "read"
                    /\ child_process'.stdout = Tail(child_process.stdout)
                 \/ /\ child_process'.stdin = child_process.stdin
                    /\ pc' = "returned"
                    /\ result'.kind = "SubprocessTerminated"
       /\ (NextIsInputRequest /\ pc = "content") =>
              /\ result'.content = PushLine(result.content, RecvLine(child_process))
              /\ child_process'.stdin = child_process.stdin
              /\ history'.input_reader = history.input_reader
       /\ ~NextIsInputRequest =>
              /\ child_process'.stdin = child_process.stdin
              /\ history'.input_reader = history.input_reader]_vars

\* C27 witness: an execution has completed in which a password request and a
\* plain request were each answered with the callback's text, in order.
C27_TwoRequestsAnswered ==
    /\ pc = "returned"
    /\ result.kind = "Ok"
    /\ history.input_reader = <<[prompt |-> "p", is_password |-> TRUE],
                                [prompt |-> "p", is_password |-> FALSE]>>
    /\ child_process.stdin = <<LoadAndRun, "secret", "answer">>

\* The lines of a content, without the line feeds between them.
ContentLines(content) == SelectSeq(content, LAMBDA t : t # "\n")

\* A line is received between a begin-content line and its end-content line.
LineInsideBlock == pc = "content" /\ child_process.stdout # <<>>

\* The step ends the block and stores what it has received under its type.
BlockStored ==
    /\ pc' = "read"
    /\ result'.output = Insert(result.output, result.mime_type, result.content)

\* C28: a line received inside a content block is not forwarded, answered or
\* taken for a sentinel: the end-content line stores the block, a panic
\* notification stores it as it is and records the panic, and every other
\* line is appended to the content, after a line feed when there is content.
C28_BlockLinesAreContentOnly ==
    [][LineInsideBlock =>
          LET line == RecvLine(child_process)
          IN /\ history' = history
             /\ state' = state
             /\ lost_variables' = lost_variables
             /\ child_process'.stdin = child_process.stdin
             /\ child_process'.stdout = Tail(child_process.stdout)
             /\ IF line = PanicNotification
                THEN BlockStored /\ got_panic'
                ELSE IF line = EndContent
                THEN BlockStored /\ got_panic' = got_panic
                ELSE /\ pc' = "content"
                     /\ got_panic' = got_panic
                     /\ result'.output = result.output
                     /\ result'.mime_type = result.mime_type
                     /\ SubSeq(result'.content, 1, Len(result.content)) = result.content
                     /\ ContentLines(result'.content) =
                            ContentLines(result.content)
                                \o (IF line = "" THEN <<>> ELSE <<line>>)
                     /\ Len(result'.content) <= Len(result.content) + 2]_vars

\* C28 witness: a block that held the early-return line was ended by a panic
\* notification: the line is its content, the panic is recorded, and the
\* variable the code defines is still in the working state.
C28_SentinelKeptAsContentUntilPanic ==
    /\ pc = "read"
    /\ got_panic
    /\ "text/html" \in DOMAIN result.output
    /\ result.output["text/html"] = <<UserErrorOccurred>>
    /\ state = ReadState
    /\ history.stdout_sender = <<>>

\* A line of plain output: none of the lines of the worker's protocol.
PlainLine(line) ==
    /\ line \notin {ExecutionComplete, PanicNotification, UserErrorOccurred,
                    EndContent}
    /\ ~StartsWithGetCmd(line)
    /\ StripChangedType(line) = <<>>
    /\ ~BeginsContent(line)

\* C29, as claimed: every plain output line that the core receives outside a
\* content block is forwarded to the stdout channel as it is, when it is
\* read and so before the execution returns, and the channel receives
\* nothing but the line just read, after the lines read before it.
C29_PlainLinesForwardedInOrder ==
    [][/\ (pc = "read" /\ child_process.stdout # <<>>
              /\ PlainLine(RecvLine(child_process))) =>
              history'.stdout_sender =
                  Append(history.stdout_sender, RecvLine(child_process))
       /\ \/ history'.stdout_sender = history.stdout_sender
          \/ /\ child_process.stdout # <<>>
             /\ history'.stdout_sender =
                    Append(history.stdout_sender, RecvLine(child_process))]_vars

\* The execution-complete lines the worker has printed.
CompletePrinted ==
    Len(SelectSeq(child_process.stdout, LAMBDA l : l = ExecutionComplete))

\* C30: while the worker lives it takes a line from stdin only when the
\* request before it has been handled to its end, and always the first one
\* waiting; its list of libraries changes only by the push of the library of
\* a request whose entry symbol has returned, after execution-complete has
\* been printed for it, so the list holds one library for each
\* execution-complete printed and no library leaves it.
C30_LibrariesOnlyAppendedAfterComplete ==
    [][/\ child_process'.stdin # child_process.stdin =>
              /\ pc = "run_loop"
              /\ child_process'.stdin = Tail(child_process.stdin)
       /\ pc = "ran" =>
              /\ pc' = "printed"
              /\ child_process'.stdout = Append(child_process.stdout, ExecutionComplete)
              /\ result'.shared_objects = result.shared_objects
       /\ pc = "printed" =>
              /\ pc' = "run_loop"
              /\ result'.shared_objects =
                     Append(result.shared_objects, result.shared_object)
       /\ (pc \notin {"printed", "exited"} /\ pc' # "exited") =>
              result'.shared_objects = result.shared_objects
       /\ pc' # "exited" =>
              Len(result'.shared_objects) + (IF pc' = "printed" THEN 1 ELSE 0)
                  = CompletePrinted']_vars

\* C30 witness: the worker has handled two requests in their order and holds
\* both libraries, the first one first, with a third line waiting.
C30_TwoLibrariesHeld ==
    /\ pc = "run_loop"
    /\ result.shared_objects = <<"so1", "so2">>
    /\ child_process.stdout = <<ExecutionComplete, ExecutionComplete>>
    /\ child_process.stdin # <<>>

\* The children of a payload that have an origin in code of the user.
UserChildren(json) ==
    {i \in 1..Len(json.children) : AnyUserSupplied(json.children[i].origins)}

\* The origins of the first n children, in order.
RECURSIVE ChildOrigins(_, _)
ChildOrigins(json, n) ==
    IF n = 0 THEN <<>>
    ELSE ChildOrigins(json, n - 1) \o json.children[n].origins

\* C31: the error that opt_new returns has the message and the origins of a
\* child, and of that child alone, exactly when the top-level diagnostic has
\* no origin in code of the user and some child has one, and that child is
\* the first such child; otherwise it has the message of the top-level
\* diagnostic, with its origins followed by those of all the children.
C31_ChildUsedOnlyWithoutUserOriginInParent ==
    (pc = "opt_new_done" /\ result.kind = "Some") =>
        IF ~AnyUserSupplied(user_code.origins) /\ UserChildren(user_code) # {}
        THEN LET first == CHOOSE i \in UserChildren(user_code) :
                              \A j \in UserChildren(user_code) : i <= j
             IN /\ result.message = user_code.children[first].message
                /\ result.message # user_code.message
                /\ result.code_origins = user_code.children[first].origins
        ELSE /\ result.message = user_code.message
             /\ \A i \in 1..Len(user_code.children) :
                    result.message # user_code.children[i].message
             /\ result.code_origins =
                    user_code.origins
                        \o ChildOrigins(user_code, Len(user_code.children))

\* C31 witness: the top-level diagnostic and its first child point at
\* generated code only and the second child at code of the user: the error
\* has the second child's message and origins.
C31_SecondChildUsed ==
    /\ pc = "opt_new_done"
    /\ result.kind = "Some"
    /\ user_code.origins = <<OtherGeneratedCode>>
    /\ Len(user_code.children) = 2
    /\ user_code.children[1].origins = <<OtherGeneratedCode>>
    /\ result.message = "help 2"
    /\ result.code_origins = <<OtherGeneratedCode, OriginalUserCode>>

\* The line feeds of a text, counted one by one from its start.
RECURSIVE CountLineFeeds(_, _)
CountLineFeeds(text, n) ==
    IF n = 0 THEN 0
    ELSE CountLineFeeds(text, n - 1) + (IF text[n] = "\n" THEN 1 ELSE 0)

\* The text ends with a line feed.
EndsWithLineFeed(text) == Len(text) > 0 /\ text[Len(text)] = "\n"

\* C32, as claimed: the text of a segment made by Segment::new ends with
\* exactly one line feed, and its line count is the number of line feeds in it.
C32_SegmentEndsWithOneLineFeed ==
    pc = "segment_done" =>
        LET segment == result.segment
        IN /\ EndsWithLineFeed(segment.code)
           /\ ~EndsWithLineFeed(SubSeq(segment.code, 1, Len(segment.code) - 1))
           /\ segment.num_lines = CountLineFeeds(segment.code, Len(segment.code))

\* C32, amended: the text of a segment made by Segment::new ends with a line
\* feed: it is the input when the input ends with one, and the input followed
\* by one line feed otherwise; its line count is the number of line feeds in it.
C32_SegmentEndsWithLineFeed ==
    pc = "segment_done" =>
        LET segment == result.segment
        IN /\ EndsWithLineFeed(segment.code)
           /\ segment.code = IF EndsWithLineFeed(user_code)
                             THEN user_code
                             ELSE user_code \o <<"\n">>
           /\ segment.num_lines = CountLineFeeds(segment.code, Len(segment.code))
           /\ segment.num_lines >= 1

\* C32 witness: a text of two lines without a final line feed has become a
\* segment of two lines that ends with one.
C32_LineFeedAddedAndCounted ==
    /\ pc = "segment_done"
    /\ user_code = <<"d", "\n", "d">>
    /\ result.segment.code = <<"d", "\n", "d", "\n">>
    /\ result.segment.num_lines = 2

\* The segment is the other one with its kind demoted if it was original
\* user code and nothing else changed.
Demoted(after, segment) ==
    /\ after.code = segment.code
    /\ after.num_lines = segment.num_lines
    /\ after.sequence = segment.sequence
    /\ after.kind = IF segment.kind = OriginalUserCode
                    THEN OtherUserCode ELSE segment.kind

\* C33: commit_state leaves in the committed state the items of the working
\* state, each with its segments in their order, with the same texts, line
\* counts and sequence ids, the kind OriginalUserCode changed to
\* OtherUserCode and every other kind as it was; no committed segment is
\* OriginalUserCode, and commit_old_user_code applied again changes nothing.
C33_CommitDemotesOriginalUserCodeOnly ==
    /\ pc \in {"commit_done", "commit_again"} =>
           /\ DOMAIN committed_state.items_by_name = DOMAIN state.items_by_name
           /\ \A i \in DOMAIN state.items_by_name :
                  LET before == state.items_by_name[i]
                      after == committed_state.items_by_name[i]
                  IN /\ Len(after) = Len(before)
                     /\ \A k \in 1..Len(before) :
                            /\ Demoted(after[k], before[k])
                            /\ after[k].kind # OriginalUserCode
    /\ pc = "commit_again" => result.items = committed_state.items_by_name

\* C33 witness: an item made of a segment of original user code with a
\* sequence id and a generated segment has been committed, and the second
\* application has been made.
C33_CommittedTwiceWithGeneratedSegment ==
    /\ pc = "commit_again"
    /\ "foo" \in DOMAIN state.items_by_name
    /\ Len(state.items_by_name["foo"]) = 2
    /\ state.items_by_name["foo"][1].kind = OriginalUserCode
    /\ state.items_by_name["foo"][1].sequence = "Some(0)"
    /\ state.items_by_name["foo"][2].kind = OtherGeneratedCode
    /\ committed_state.items_by_name["foo"][1].kind = OtherUserCode

\* The blocking thread of the request is inside execute_with_callbacks.
Evaluating(id) == result.blocking[id] \in {"executing", "input"}

\* The first n elements of a sequence.
Prefix(seq, n) == SubSeq(seq, 1, n)

\* C34: at most one blocking thread is inside execute_with_callbacks, and it
\* holds the CommandContext mutex for as long as it is; the evaluations begin
\* in the order in which the execute requests arrived and each one ends
\* before the next begins.
C34_EvaluationsOneAfterAnother ==
    /\ \A id1, id2 \in Range(RequestIds) :
           (Evaluating(id1) /\ Evaluating(id2)) => id1 = id2
    /\ \A id \in Range(RequestIds) : Evaluating(id) <=> state.context = id
    /\ Len(history.started) <= Len(history.arrived)
    /\ history.started = Prefix(history.arrived, Len(history.started))
    /\ Len(history.ended) <= Len(history.started)
    /\ history.ended = Prefix(history.started, Len(history.ended))
    /\ Len(history.started) - Len(history.ended) =
           IF \E id \in Range(RequestIds) : Evaluating(id) THEN 1 ELSE 0

\* C34 witness: two execute requests have been evaluated, the first of which
\* asked for input, and the second evaluation began after the first ended.
C34_TwoEvaluationsInOrder ==
    /\ history.arrived = <<"r1", "r2">>
    /\ history.ended = <<"r1", "r2">>
    /\ result.moved[1].allow_stdin
    /\ result.moved[1].inputs = 1
    /\ pc.execution = "recv"

\* The mutexes a thread or task holds.
Held(thread) == {m \in Mutexes : state[m] = thread}

\* C35, as claimed: no thread or task of the Jupyter server holds more than
\* one of the iopub, stdin, latest_execution_request, shutdown_sender and
\* CommandContext mutexes at the same time.
C35_AtMostOneMutexHeld ==
    \A thread \in {"execution", "shell", "control"} \cup Range(RequestIds) :
        Cardinality(Held(thread)) <= 1

\* The kinds of the command segments among the first n segments, in order.
CommandKindsUpTo(segments, n) ==
    LET IsCommand(segment) == segment.kind.tag = "Command"
    IN [i \in 1..Len(SelectSeq(SubSeq(segments, 1, n), IsCommand)) |->
           SelectSeq(SubSeq(segments, 1, n), IsCommand)[i].kind]

\* C36: in execute the commands are handed to process_command in the order
\* of the submission and before the code reaches eval_with_callbacks; a command
\* whose name is not in the table, or whose handler returned an error, ends
\* execute with CompilationErrors holding exactly one error whose origin is
\* that command's segment, with no later command run, the code not
\* evaluated, and the committed state as the handlers left it, the working
\* state not committed.
C36_FailingCommandEndsExecute ==
    history.mode = "execute" =>
        /\ history.run = CommandKindsUpTo(user_code, Len(history.run))
        /\ history.evaluated => history.run = CommandKindsUpTo(user_code, Len(user_code))
        /\ \A i \in 1..Len(history.run) :
               history.run[i].command \notin CommandNames => history.failed = i
        /\ history.failed # 0 =>
               /\ pc = "done"
               /\ result.kind = "CompilationErrors"
               /\ Len(result.errors) = 1
               /\ result.errors[1].code_origins = <<user_code[history.failed].kind>>
               /\ Len(history.run) = history.failed
               /\ ~history.evaluated
               /\ history.non_command_code = <<>>
               /\ child_process.stdin = <<>>
               /\ committed_state = history.handlers

\* :load_config ran and committed a line of the configuration, the command
\* after it was not in the table, and code came after that.
C36_SecondCommandUnrecognised ==
    /\ history.mode = "execute"
    /\ pc = "done"
    /\ history.failed = 2
    /\ user_code[1].kind.command = ":load_config"
    /\ user_code[2].kind.command = ":vers"
    /\ Len(user_code) = 3
    /\ committed_state # history.pre

NoCodeSegments ==
    \A i \in 1..Len(user_code) : user_code[i].kind.tag = "Command"

\* The submission has no code segments, its commands all succeeded, the
\* working state they left differs from the committed one in nothing that
\* can fail compilation, and execute has returned.
NoCodeReturned ==
    /\ history.mode = "execute"
    /\ pc = "done"
    /\ history.failed = 0
    /\ NoCodeSegments
    /\ ~StateChangeCanFailCompilation(history.handlers, state)

MarkedFixed(label) ==
    /\ pc = "compile"
    /\ history'.fixers_called
    /\ \E dep_ok \in AddDepOutcomes(history'.catch_errors) :
           label \in FixErrors(FixAcc(state, user_code, {}, "ok"),
                               history'.catch_errors, 1, dep_ok).fixed

\* The step begins and ends inside run_statements.
InRunStatements ==
    /\ pc \in {"compile", "nocatch", "exec"}
    /\ pc' \in {"compile", "nocatch", "exec"}

\* C37: a pass marks the async-mode fix only when async_mode was false, and
\* the flag is true when the next build begins; it marks the question-mark
\* fix only when allow_question_mark was false, and that flag is true when
\* the next build begins; no step inside run_statements sets either flag
\* back to false.  Each of the two fixes is therefore marked at most once in
\* a submission.
C37_FlagFixersApplyOnce ==
    [][/\ MarkedFixed("Enabled async mode") =>
              ~state.async_mode /\ (pc' = "compile" => state'.async_mode)
       /\ MarkedFixed("Allow question mark") =>
              /\ ~state.allow_question_mark
              /\ pc' = "compile" => state'.allow_question_mark
       /\ InRunStatements =>
              /\ state.async_mode => state'.async_mode
              /\ state.allow_question_mark => state'.allow_question_mark]_vars

\* Both fixes have been applied in one submission, in two passes, and the
\* third build reports E0728 and E0277 once more.
C37_BothFlagsSetInOneSubmission ==
    /\ pc = "nocatch"
    /\ state.async_mode
    /\ state.allow_question_mark
    /\ ~history.pre.async_mode
    /\ ~history.pre.allow_question_mark
    /\ history.fix_passes >= 2
    /\ HasAwaitError(history.catch_errors)

====
